---- MODULE Spec2Model ----
(***************************************************************************)
(* A model of the l3_engine backtester: the order book (core/order_book),  *)
(* the execution handler (core/execution), the portfolio (core/portfolio), *)
(* the footprint strategy (strategy/) and the controller loop (backtest).  *)
(*                                                                         *)
(* Conventions.                                                            *)
(*  - A Decimal is an exact rational [n, d] in lowest terms with d > 0.    *)
(*    The 12-digit context precision set in backtest.py is not modelled:   *)
(*    every value of the model is far below 12 significant digits.         *)
(*  - Python's None is the record None; an Optional field holds None or a  *)
(*    value.  Truthy() is Python truthiness (None and 0 are false).        *)
(*  - A dict that the code iterates is a sequence in insertion order; a    *)
(*    SortedDict is a sequence in key order.                               *)
(*  - A handler is an operator from the program state (a record of all     *)
(*    the objects' fields) to the program state; an action applies one     *)
(*    handler, with all the calls it makes, in one step.                   *)
(*  - domain/events.py is not part of the sources at hand: the event       *)
(*    records carry the fields the constructor calls in the sources name,  *)
(*    and a field a call leaves out is None (0 for filled_quantity).       *)
(*  - The controller as written cannot produce an endogenous event:        *)
(*    backtest.py builds the strategy with the arguments (controller,      *)
(*    symbol, params, book) for the parameters (symbol, event_queue,       *)
(*    params, book), gives the execution handler the controller as its     *)
(*    event_queue (the controller has _add_event, not append), and uses    *)
(*    OrderType without importing it; strategy/base.py uses EventType      *)
(*    without importing it.  config.wiring = "as_written" is that program; *)
(*    config.wiring = "repaired" is the program with the arguments in      *)
(*    parameter order, the names imported, and event_queue.append bound    *)
(*    to _add_event, which the comments of backtest.py describe.           *)
(*    config.wiring = "direct" is the strategy built by a caller with the  *)
(*    arguments in parameter order and the modules as written: building a  *)
(*    SignalEvent in strategy/base.py then raises NameError.               *)
(***************************************************************************)
EXTENDS Integers, Sequences, FiniteSets, TLC

VARIABLES
  \* BacktestController
  event_queue, current_time, count, pc, config, list_iter, market_left, last_market_ts,
  \* OrderBook
  bids, asks, last_update_time, best_bid, best_ask,
  \* ExecutionHandler
  order_counter, submitted_orders, pending_limit_orders, pending_stop_orders,
  linked_exit_orders,
  \* Portfolio
  cash, holdings, positions_avg_price, realized_pnl, equity_curve,
  last_market_price, trade_log, open_positions,
  \* Strategy
  active_order_id, current_position, current_bar_start_time, volume_profile,
  \* history: the events dispatched so far, the fills the portfolio processed,
  \* and a note of what the last operation did
  dispatched, fills_processed, last_op

vars == <<event_queue, current_time, count, pc, config, list_iter, market_left,
          last_market_ts, bids, asks, last_update_time, best_bid, best_ask,
          order_counter, submitted_orders, pending_limit_orders, pending_stop_orders,
          linked_exit_orders, cash, holdings, positions_avg_price, realized_pnl,
          equity_curve, last_market_price, trade_log, open_positions,
          active_order_id, current_position, current_bar_start_time, volume_profile,
          dispatched, fills_processed, last_op>>

-----------------------------------------------------------------------------
(* Bounds of the model *)

\* order book harness: ticks of the price grid, last timestamp
BookMaxTick == 2
BookMaxTime == 1
\* portfolio harness: number of fills processed
PfMaxFills == 3
\* execution harness: number of entry signals
ExMaxSignals == 1
\* a run on a market stream: number of market events, last timestamp
MaxMarketEvents == 3
MaxTime == 2

-----------------------------------------------------------------------------
(* Values *)

None == [none |-> TRUE]

Abs(x) == IF x < 0 THEN -x ELSE x
Min(a, b) == IF a <= b THEN a ELSE b
Max(a, b) == IF a >= b THEN a ELSE b

RECURSIVE GCD(_, _)
GCD(a, b) == IF b = 0 THEN a ELSE GCD(b, a % b)

\* Decimal: an exact rational in lowest terms
Rat(n, d) ==
  LET g == GCD(Abs(n), Abs(d))
      s == IF d < 0 THEN -1 ELSE 1
  IN [n |-> (s * n) \div g, d |-> (s * d) \div g]
Dec(i) == [n |-> i, d |-> 1]
RAdd(a, b) == Rat(a.n * b.d + b.n * a.d, a.d * b.d)
RSub(a, b) == Rat(a.n * b.d - b.n * a.d, a.d * b.d)
RMul(a, b) == Rat(a.n * b.n, a.d * b.d)
RDiv(a, b) == Rat(a.n * b.d, a.d * b.n)
RNeg(a) == [n |-> -a.n, d |-> a.d]
RLt(a, b) == a.n * b.d < b.n * a.d
RLe(a, b) == a.n * b.d <= b.n * a.d
RGt(a, b) == RLt(b, a)
RGe(a, b) == RLe(b, a)
RMax(a, b) == IF RGe(a, b) THEN a ELSE b

\* an optional integer or string that is given
Some(x) == [some |-> x]
\* Python truthiness of an Optional[Decimal] and of an Optional id
Truthy(x) == x # None /\ x # Dec(0)

\* the keys of a dict held as a function
Keys(f) == DOMAIN f
\* del d[k]
DictDel(f, k) == [x \in (DOMAIN f) \ {k} |-> f[x]]
\* d[k] = v
DictSet(f, k, v) == [x \in (DOMAIN f) \union {k} |-> IF x = k THEN v ELSE f[x]]
EmptyDict == [x \in {} |-> None]

\* a sequence without its i-th element
RemoveAt(s, i) == [j \in 1..(Len(s) - 1) |-> IF j < i THEN s[j] ELSE s[j + 1]]
\* a sequence with x put before its i-th element
InsertAt(s, i, x) ==
  [j \in 1..(Len(s) + 1) |-> IF j < i THEN s[j] ELSE IF j = i THEN x ELSE s[j - 1]]

RECURSIVE SeqSum(_)
SeqSum(s) == IF s = <<>> THEN 0 ELSE Head(s) + SeqSum(Tail(s))

-----------------------------------------------------------------------------
(* domain/enums.py *)

BUY == "BUY"
SELL == "SELL"
Sides == {BUY, SELL}

MARKET_TRADE == "MARKET_TRADE"
MARKET_DEPTH == "MARKET_DEPTH"
SIGNAL == "SIGNAL"
ORDER == "ORDER"
FILL == "FILL"

DELETE == "DELETE"
INSERT == "INSERT"
UPDATE == "UPDATE"
UNKNOWN_4 == "UNKNOWN_4"
OrderCommands == {INSERT, UPDATE, DELETE, UNKNOWN_4}

MARKET == "MARKET"
LIMIT == "LIMIT"
STOP_MARKET == "STOP_MARKET"

PENDING_SUBMIT == "PENDING_SUBMIT"
ACCEPTED == "ACCEPTED"
REJECTED == "REJECTED"
PARTIALLY_FILLED == "PARTIALLY_FILLED"
FILLED == "FILLED"
CANCELLED == "CANCELLED"
TRIGGERED == "TRIGGERED"

\* the instrument of the run, and another one
Symbol == "ES"
OtherSymbol == "NQ"
\* config['tick_size']
TickSize == Rat(1, 4)

-----------------------------------------------------------------------------
(* The program state as one record, and its assignment to the variables *)

S ==
  [event_queue |-> event_queue, current_time |-> current_time, count |-> count,
   bids |-> bids, asks |-> asks, last_update_time |-> last_update_time,
   best_bid |-> best_bid, best_ask |-> best_ask,
   order_counter |-> order_counter, submitted_orders |-> submitted_orders,
   pending_limit_orders |-> pending_limit_orders,
   pending_stop_orders |-> pending_stop_orders,
   linked_exit_orders |-> linked_exit_orders,
   cash |-> cash, holdings |-> holdings, positions_avg_price |-> positions_avg_price,
   realized_pnl |-> realized_pnl, equity_curve |-> equity_curve,
   last_market_price |-> last_market_price, trade_log |-> trade_log,
   open_positions |-> open_positions,
   active_order_id |-> active_order_id, current_position |-> current_position,
   current_bar_start_time |-> current_bar_start_time,
   volume_profile |-> volume_profile,
   fills_processed |-> fills_processed]

Apply(s) ==
  /\ event_queue' = s.event_queue
  /\ current_time' = s.current_time
  /\ count' = s.count
  /\ bids' = s.bids
  /\ asks' = s.asks
  /\ last_update_time' = s.last_update_time
  /\ best_bid' = s.best_bid
  /\ best_ask' = s.best_ask
  /\ order_counter' = s.order_counter
  /\ submitted_orders' = s.submitted_orders
  /\ pending_limit_orders' = s.pending_limit_orders
  /\ pending_stop_orders' = s.pending_stop_orders
  /\ linked_exit_orders' = s.linked_exit_orders
  /\ cash' = s.cash
  /\ holdings' = s.holdings
  /\ positions_avg_price' = s.positions_avg_price
  /\ realized_pnl' = s.realized_pnl
  /\ equity_curve' = s.equity_curve
  /\ last_market_price' = s.last_market_price
  /\ trade_log' = s.trade_log
  /\ open_positions' = s.open_positions
  /\ active_order_id' = s.active_order_id
  /\ current_position' = s.current_position
  /\ current_bar_start_time' = s.current_bar_start_time
  /\ volume_profile' = s.volume_profile
  /\ fills_processed' = s.fills_processed

-----------------------------------------------------------------------------
(* core/order_book.py *)

\* SortedDict(lambda k: -k) for the bids, SortedDict() for the asks: the sort
\* key of a price on a ladder (sgn is -1 for the bids and 1 for the asks)
SortKey(sgn, price) == IF sgn < 0 THEN RNeg(price) ELSE price

\* the position of a price on a ladder, 0 when it has no level
RECURSIVE LadderIndex(_, _)
LadderIndex(ladder, price) ==
  IF ladder = <<>> THEN 0
  ELSE IF ladder[Len(ladder)].price = price THEN Len(ladder)
  ELSE LadderIndex(SubSeq(ladder, 1, Len(ladder) - 1), price)

\* price in book_side
LadderHas(ladder, price) == LadderIndex(ladder, price) # 0

\* the place a new key takes: before the first level with a greater sort key
RECURSIVE InsertPos(_, _, _, _)
InsertPos(ladder, sgn, price, i) ==
  IF i > Len(ladder) THEN i
  ELSE IF RGt(SortKey(sgn, ladder[i].price), SortKey(sgn, price)) THEN i
  ELSE InsertPos(ladder, sgn, price, i + 1)

\* a mutation of LadderSet: the quantity is added to the level's quantity
LadderSetAdd(ladder, sgn, price, qty, num_orders) ==
  LET i == LadderIndex(ladder, price)
      old == IF i # 0 THEN ladder[i].qty ELSE 0
      lv == [price |-> price, qty |-> old + qty, num_orders |-> num_orders]
  IN IF i # 0 THEN [ladder EXCEPT ![i] = lv]
     ELSE InsertAt(ladder, InsertPos(ladder, sgn, price, 1), lv)

\* a mutation of LadderSet: a new level is put at the end of the ladder
LadderSetAppend(ladder, sgn, price, qty, num_orders) ==
  LET lv == [price |-> price, qty |-> qty, num_orders |-> num_orders]
      i == LadderIndex(ladder, price)
  IN IF i # 0 THEN [ladder EXCEPT ![i] = lv] ELSE Append(ladder, lv)

\* book_side[price] = {'qty': qty, 'num_orders': num_orders}
LadderSet(ladder, sgn, price, qty, num_orders) ==
  LET lv == [price |-> price, qty |-> qty, num_orders |-> num_orders]
      i == LadderIndex(ladder, price)
  IN IF i # 0 THEN [ladder EXCEPT ![i] = lv]
     ELSE InsertAt(ladder, InsertPos(ladder, sgn, price, 1), lv)

\* a mutation of LadderDel: the best level is removed, whatever the price
LadderDelFirst(ladder, price) == Tail(ladder)

\* del book_side[price]
LadderDel(ladder, price) == RemoveAt(ladder, LadderIndex(ladder, price))

\* next(iter(ladder), None)
FirstKey(ladder) == IF ladder = <<>> THEN None ELSE ladder[1].price

\* a mutation of StaleOrForeign: the staleness test is dropped
StaleOrForeignNoTime(s, event) == event.symbol # Symbol

\* the early return of process_depth_event
StaleOrForeign(s, event) ==
  event.symbol # Symbol \/ event.timestamp < s.last_update_time

process_depth_event(s, event) ==
  IF StaleOrForeign(s, event) THEN s
  ELSE
    LET is_bid_side == event.side = SELL
        book_side == IF is_bid_side THEN s.bids ELSE s.asks
        sgn == IF is_bid_side THEN -1 ELSE 1
        price == event.price
        new_side ==
          IF event.command = DELETE \/ (event.command = UPDATE /\ event.quantity <= 0)
          THEN IF LadderHas(book_side, price) THEN LadderDel(book_side, price)
               ELSE book_side
          ELSE IF event.command \in {INSERT, UPDATE}
          THEN IF event.quantity > 0
               THEN LadderSet(book_side, sgn, price, event.quantity, event.num_orders)
               ELSE IF LadderHas(book_side, price) THEN LadderDel(book_side, price)
               ELSE book_side
          ELSE book_side
        new_bids == IF is_bid_side THEN new_side ELSE s.bids
        new_asks == IF is_bid_side THEN s.asks ELSE new_side
    IN [s EXCEPT !.last_update_time = event.timestamp,
                 !.bids = new_bids, !.asks = new_asks,
                 !.best_bid = FirstKey(new_bids), !.best_ask = FirstKey(new_asks)]

\* get_bbo: (bid_price, bid_qty, ask_price, ask_qty)
get_bbo(s) ==
  LET bid_qty == IF Truthy(s.best_bid) /\ LadderHas(s.bids, s.best_bid)
                 THEN s.bids[LadderIndex(s.bids, s.best_bid)].qty ELSE 0
      ask_qty == IF Truthy(s.best_ask) /\ LadderHas(s.asks, s.best_ask)
                 THEN s.asks[LadderIndex(s.asks, s.best_ask)].qty ELSE 0
  IN <<s.best_bid, bid_qty, s.best_ask, ask_qty>>

\* get_level_data: Side.SELL selects the bids, Side.BUY the asks
get_level_data(s, price, side) ==
  LET book_side == IF side = SELL THEN s.bids ELSE s.asks
  IN IF LadderHas(book_side, price) THEN book_side[LadderIndex(book_side, price)]
     ELSE None

\* SortedDict.irange(minimum = lo, maximum = hi, inclusive = (False, False)):
\* the keys whose SORT KEY lies strictly between the sort keys of lo and hi
\* (None: unbounded), summed over their quantities
RECURSIVE IrangeQty(_, _, _, _)
IrangeQty(ladder, sgn, lo, hi) ==
  IF ladder = <<>> THEN 0
  ELSE LET lv == Head(ladder)
           k == SortKey(sgn, lv.price)
           inside == /\ (lo = None \/ RGt(k, SortKey(sgn, lo)))
                     /\ (hi = None \/ RLt(k, SortKey(sgn, hi)))
       IN (IF inside THEN lv.qty ELSE 0) + IrangeQty(Tail(ladder), sgn, lo, hi)

estimate_quantity_ahead(s, order_price, order_side) ==
  IF order_side = BUY THEN IrangeQty(s.bids, -1, order_price, None)
  ELSE IF order_side = SELL THEN IrangeQty(s.asks, 1, None, order_price)
  ELSE 0

-----------------------------------------------------------------------------
(* Events (domain/events.py) *)

\* the fields a constructor call may leave out
OrderEvent(kw) ==
  kw @@ [event_type |-> ORDER, limit_price |-> None, stop_price |-> None,
         filled_quantity |-> 0, linked_stop_price |-> None,
         linked_target_price |-> None, parent_order_id |-> None]
FillEvent(kw) ==
  kw @@ [event_type |-> FILL, linked_stop_price |-> None, linked_target_price |-> None]
SignalEvent(kw) ==
  kw @@ [event_type |-> SIGNAL, limit_price |-> None, stop_price |-> None,
         signal_trigger_price |-> None, signal_stop_price |-> None,
         signal_target_price |-> None]
MarketData_TradeEvent(kw) == kw @@ [event_type |-> MARKET_TRADE]
MarketData_DepthEvent(kw) == kw @@ [event_type |-> MARKET_DEPTH]

\* the order of events in the priority queue: by timestamp, and among equal
\* timestamps the earlier insertion first (a later event is never less)
EventLess(a, b) == a.timestamp < b.timestamp

-----------------------------------------------------------------------------
(* The event queue the components append to *)

\* heapq.heappush: the item is put at the end of the list and sifted up
RECURSIVE SiftUp(_, _)
SiftUp(heap, pos) ==
  IF pos <= 1 THEN heap
  ELSE LET parentpos == pos \div 2
       IN IF EventLess(heap[pos], heap[parentpos])
          THEN SiftUp([heap EXCEPT ![pos] = heap[parentpos], ![parentpos] = heap[pos]],
                      parentpos)
          ELSE heap

\* BacktestController._add_event
_add_event(s, event) ==
  [s EXCEPT !.event_queue = SiftUp(Append(s.event_queue, event), Len(s.event_queue) + 1)]

\* self.event_queue.append(event) of a component.  The component is built with a
\* deque (its declared parameter type) or with the controller, whose queueing
\* method is _add_event (backtest.py, "Pass self for queueing").
Enqueue(s, event) ==
  IF config.queue = "deque" THEN [s EXCEPT !.event_queue = Append(s.event_queue, event)]
  ELSE _add_event(s, event)

-----------------------------------------------------------------------------
(* core/execution.py *)

\* params['commission_per_contract'], config['commission']
commission_per_contract == Rat(5, 2)
latency_data_signal_ns == config.latency_data_signal_ns
latency_signal_order_ns == config.latency_signal_order_ns

OrderId(prefix, n) == [prefix |-> prefix, n |-> n, suffix |-> ""]

\* a dict in insertion order, held as a sequence of entries with an order_id
RECURSIVE EntryIndex(_, _)
EntryIndex(entries, order_id) ==
  IF entries = <<>> THEN 0
  ELSE IF entries[Len(entries)].order_id = order_id THEN Len(entries)
  ELSE EntryIndex(SubSeq(entries, 1, Len(entries) - 1), order_id)
HasEntry(entries, order_id) == EntryIndex(entries, order_id) # 0
EntryDel(entries, order_id) == RemoveAt(entries, EntryIndex(entries, order_id))
EntrySet(entries, e) ==
  IF HasEntry(entries, e.order_id)
  THEN [entries EXCEPT ![EntryIndex(entries, e.order_id)] = e]
  ELSE Append(entries, e)

\* original_order.filled_quantity = q: the order object is shared by
\* submitted_orders and by the pending tables
SetFilledQuantity(s, order_id, q) ==
  [s EXCEPT
     !.submitted_orders = [@ EXCEPT ![order_id].filled_quantity = q],
     !.pending_limit_orders =
        [i \in DOMAIN @ |-> IF @[i].order_id = order_id
                            THEN [@[i] EXCEPT !.order.filled_quantity = q] ELSE @[i]],
     !.pending_stop_orders =
        [i \in DOMAIN @ |-> IF @[i].order_id = order_id
                            THEN [@[i] EXCEPT !.order.filled_quantity = q] ELSE @[i]]]

\* a mutation of IsTerminal: a cancelled order is kept
IsTerminalNoCancel(status) == status \in {FILLED, REJECTED}

IsTerminal(status) == status \in {FILLED, REJECTED, CANCELLED}

_update_order_status(s, order_id, status, timestamp, filled_qty) ==
  IF order_id \notin Keys(s.submitted_orders) THEN s
  ELSE
    LET o0 == s.submitted_orders[order_id]
        current_filled == IF filled_qty # None THEN filled_qty.some ELSE o0.filled_quantity
        s1 == IF status = PARTIALLY_FILLED THEN SetFilledQuantity(s, order_id, current_filled)
              ELSE IF status = FILLED THEN SetFilledQuantity(s, order_id, o0.quantity)
              ELSE s
        original_order == s1.submitted_orders[order_id]
        status_event ==
          OrderEvent([timestamp |-> timestamp, order_id |-> order_id, status |-> status,
                      strategy_id |-> original_order.strategy_id,
                      symbol |-> original_order.symbol,
                      quantity |-> original_order.quantity,
                      order_type |-> original_order.order_type,
                      direction |-> original_order.direction,
                      limit_price |-> original_order.limit_price,
                      stop_price |-> original_order.stop_price,
                      filled_quantity |-> current_filled,
                      linked_stop_price |-> original_order.linked_stop_price,
                      linked_target_price |-> original_order.linked_target_price,
                      parent_order_id |-> original_order.parent_order_id])
        s2 == Enqueue(s1, status_event)
    IN IF IsTerminal(status)
       THEN [s2 EXCEPT !.submitted_orders = DictDel(@, order_id)]
       ELSE s2

\* a mutation of _reject_order: no status is reported
RejectNoop(s, order) == s

_reject_order(s, order) ==
  _update_order_status(s, order.order_id, REJECTED, order.timestamp, None)

\* a mutation of process_signal: linked_exit_orders is left alone
process_signal_unlinked(s, event) ==
  LET n == s.order_counter + 1
      entry_order_id == OrderId("ENTRY", n)
      entry_order ==
        OrderEvent([timestamp |-> event.timestamp + latency_data_signal_ns
                                    + latency_signal_order_ns,
                    order_id |-> entry_order_id,
                    strategy_id |-> event.strategy_id, symbol |-> event.symbol,
                    quantity |-> event.quantity, order_type |-> event.order_type,
                    direction |-> event.direction, limit_price |-> event.limit_price,
                    stop_price |-> event.stop_price,
                    linked_stop_price |-> event.signal_stop_price,
                    linked_target_price |-> event.signal_target_price,
                    status |-> PENDING_SUBMIT])
  IN Enqueue([s EXCEPT !.order_counter = n,
                       !.submitted_orders = DictSet(@, entry_order_id, entry_order)],
             entry_order)

process_signal(s, event) ==
  LET simulated_arrival_time ==
        event.timestamp + latency_data_signal_ns + latency_signal_order_ns
      n == s.order_counter + 1
      entry_order_id == OrderId("ENTRY", n)
      entry_order ==
        OrderEvent([timestamp |-> simulated_arrival_time, order_id |-> entry_order_id,
                    strategy_id |-> event.strategy_id, symbol |-> event.symbol,
                    quantity |-> event.quantity, order_type |-> event.order_type,
                    direction |-> event.direction, limit_price |-> event.limit_price,
                    stop_price |-> event.stop_price,
                    linked_stop_price |-> event.signal_stop_price,
                    linked_target_price |-> event.signal_target_price,
                    status |-> PENDING_SUBMIT])
      s1 == [s EXCEPT !.order_counter = n,
                      !.submitted_orders = DictSet(@, entry_order_id, entry_order)]
      s2 == Enqueue(s1, entry_order)
  IN IF Truthy(event.signal_stop_price) \/ Truthy(event.signal_target_price)
     THEN [s2 EXCEPT !.linked_exit_orders =
                        DictSet(@, entry_order_id, [stop_id |-> None, target_id |-> None])]
     ELSE s2

\* a mutation of LevelConsumed: no level is ever dropped
LevelConsumedNever(qty) == FALSE

\* a mutation of LevelConsumed: a level is dropped only when over-consumed
LevelConsumedStrict(qty) == qty < 0

\* if level_data['qty'] <= 0: del book_side[price]
LevelConsumed(qty) == qty <= 0

\* a mutation of WalkLevels: the walk stops after the best level
WalkLevelsBestOnly(levels, qty_to_fill) ==
  IF levels = <<>> THEN [ladder |-> <<>>, filled_qty |-> 0, total_value |-> Dec(0)]
  ELSE
    LET fill_on_this_level == Min(qty_to_fill, Head(levels).qty)
        left == Head(levels).qty - fill_on_this_level
        kept == IF left <= 0 THEN <<>> ELSE <<[Head(levels) EXCEPT !.qty = left]>>
    IN [ladder |-> kept \o Tail(levels), filled_qty |-> fill_on_this_level,
        total_value |-> RMul(Dec(fill_on_this_level), Head(levels).price)]

\* the loop of _execute_market_order over the levels of one ladder, best first:
\* the ladder left, the quantity filled and the value paid
RECURSIVE WalkLevels(_, _)
WalkLevels(levels, qty_to_fill) ==
  IF levels = <<>> THEN [ladder |-> <<>>, filled_qty |-> 0, total_value |-> Dec(0)]
  ELSE
    LET level_data == Head(levels)
        available_qty == level_data.qty
        fill_on_this_level == Min(qty_to_fill, available_qty)
        left == available_qty - fill_on_this_level
        kept == IF LevelConsumed(left) THEN <<>>
                ELSE <<[level_data EXCEPT !.qty = left]>>
        value == RMul(Dec(fill_on_this_level), level_data.price)
    IN IF qty_to_fill - fill_on_this_level = 0
       THEN [ladder |-> kept \o Tail(levels), filled_qty |-> fill_on_this_level,
             total_value |-> value]
       ELSE LET r == WalkLevels(Tail(levels), qty_to_fill - fill_on_this_level)
            IN [ladder |-> kept \o r.ladder,
                filled_qty |-> fill_on_this_level + r.filled_qty,
                total_value |-> RAdd(value, r.total_value)]

_execute_market_order(s, order) ==
  LET book_side == IF order.direction = BUY THEN s.asks ELSE s.bids
  IN IF book_side = <<>> THEN _reject_order(s, order)
     ELSE
       LET w == WalkLevels(book_side, order.quantity)
           new_bids == IF order.direction = BUY THEN s.bids ELSE w.ladder
           new_asks == IF order.direction = BUY THEN w.ladder ELSE s.asks
           s1 == [s EXCEPT !.bids = new_bids, !.asks = new_asks,
                           !.best_bid = FirstKey(new_bids),
                           !.best_ask = FirstKey(new_asks)]
           filled_qty == w.filled_qty
       IN IF filled_qty > 0
          THEN
            LET avg_fill_price == RDiv(w.total_value, Dec(filled_qty))
                commission == RMul(commission_per_contract, Dec(filled_qty))
                fill ==
                  FillEvent([timestamp |-> order.timestamp, order_id |-> order.order_id,
                             strategy_id |-> order.strategy_id, symbol |-> order.symbol,
                             direction |-> order.direction,
                             quantity_filled |-> filled_qty,
                             fill_price |-> avg_fill_price, commission |-> commission,
                             linked_stop_price |-> order.linked_stop_price,
                             linked_target_price |-> order.linked_target_price])
                final_status == IF filled_qty = order.quantity THEN FILLED
                                ELSE PARTIALLY_FILLED
            IN _update_order_status(Enqueue(s1, fill), order.order_id, final_status,
                                    order.timestamp, Some(filled_qty))
          ELSE _reject_order(s1, order)

\* a mutation of ImmediateFill: no limit order is taken as crossing
ImmediateFillNever(s, order) == FALSE

\* immediate_fill of _handle_limit_order_placement: the limit crosses the BBO
ImmediateFill(s, order) ==
  LET bbo == get_bbo(s)
      bbo_bid == bbo[1]
      bbo_ask == bbo[3]
  IN \/ /\ order.direction = BUY /\ Truthy(order.limit_price) /\ Truthy(bbo_ask)
        /\ RGe(order.limit_price, bbo_ask)
     \/ /\ order.direction = SELL /\ Truthy(order.limit_price) /\ Truthy(bbo_bid)
        /\ RLe(order.limit_price, bbo_bid)

_handle_limit_order_placement(s, order) ==
  LET immediate_fill == ImmediateFill(s, order)
  IN IF immediate_fill THEN _execute_market_order(s, order)
     ELSE
       LET qty_better == estimate_quantity_ahead(s, order.limit_price, order.direction)
           book_side_for_order == IF order.direction = BUY THEN SELL ELSE BUY
           qty_at_level_data ==
             IF order.limit_price = None THEN None
             ELSE get_level_data(s, order.limit_price, book_side_for_order)
           qty_at_level == IF qty_at_level_data # None THEN qty_at_level_data.qty ELSE 0
       IN [s EXCEPT !.pending_limit_orders =
                       EntrySet(@, [order_id |-> order.order_id, order |-> order,
                                    qty_ahead |-> qty_better + qty_at_level,
                                    qty_filled |-> 0])]

_handle_stop_order_placement(s, order) ==
  IF order.stop_price = None THEN _reject_order(s, order)
  ELSE [s EXCEPT !.pending_stop_orders =
                    EntrySet(@, [order_id |-> order.order_id, order |-> order])]

execute_order(s, order_event) ==
  LET s1 == _update_order_status(s, order_event.order_id, ACCEPTED,
                                 order_event.timestamp, None)
  IN IF order_event.order_type = MARKET THEN _execute_market_order(s1, order_event)
     ELSE IF order_event.order_type = LIMIT THEN _handle_limit_order_placement(s1, order_event)
     ELSE IF order_event.order_type = STOP_MARKET
     THEN _handle_stop_order_placement(s1, order_event)
     ELSE _reject_order(s1, order_event)

-----------------------------------------------------------------------------
(* Initial values of the objects *)

\* OrderBook.__init__ without synthetic data, ExecutionHandler.__init__,
\* Portfolio.__init__ (config['capital']), Strategy.__init__
initial_capital == Dec(100000)

\* the order book, holding the given ladders
InitOrderBook(b, a) ==
  /\ bids = b /\ asks = a /\ last_update_time = 0
  /\ best_bid = FirstKey(b) /\ best_ask = FirstKey(a)

InitComponents ==
  /\ event_queue = <<>> /\ current_time = 0 /\ count = 0
  /\ order_counter = 0 /\ submitted_orders = EmptyDict
  /\ pending_limit_orders = <<>> /\ pending_stop_orders = <<>>
  /\ linked_exit_orders = EmptyDict
  /\ cash = initial_capital /\ holdings = EmptyDict /\ positions_avg_price = EmptyDict
  /\ realized_pnl = Dec(0) /\ equity_curve = <<<<0, initial_capital>>>>
  /\ last_market_price = EmptyDict /\ trade_log = <<>> /\ open_positions = EmptyDict
  /\ active_order_id = None /\ current_position = 0
  /\ current_bar_start_time = None /\ volume_profile = EmptyDict
  /\ dispatched = <<>> /\ fills_processed = <<>>

InitObjects == InitComponents /\ InitOrderBook(<<>>, <<>>)

\* a component used on its own is built with a deque
DequeConfig ==
  [queue |-> "deque", wiring |-> "repaired", test_scenario |-> None,
   max_events |-> None, latency_data_signal_ns |-> 1,
   latency_signal_order_ns |-> 1, bar_interval_ns |-> 2]

ControllerIdle ==
  /\ pc = "harness" /\ list_iter = 0 /\ market_left = 0 /\ last_market_ts = 0

-----------------------------------------------------------------------------
(* The order book under depth events and market-order walks *)

BookPrices == {RMul(Dec(k), TickSize) : k \in 1..BookMaxTick}

\* the quantities of a depth event
BookQtys == {0, 1, 2}

\* depth events of the book's symbol, and events of another symbol that would
\* set a level if they were accepted
BookDepthEvents ==
  {MarketData_DepthEvent([timestamp |-> ts, symbol |-> Symbol, side |-> side,
                          price |-> p, quantity |-> q, num_orders |-> 1,
                          command |-> cmd]) :
     ts \in 0..BookMaxTime, side \in Sides, p \in BookPrices, q \in BookQtys,
     cmd \in OrderCommands}
  \union
  {MarketData_DepthEvent([timestamp |-> ts, symbol |-> OtherSymbol, side |-> side,
                          price |-> p, quantity |-> 1, num_orders |-> 1,
                          command |-> INSERT]) :
     ts \in 0..BookMaxTime, side \in Sides, p \in BookPrices}

\* a MARKET order handed to _execute_market_order by a caller
BookMarketOrders ==
  {OrderEvent([timestamp |-> last_update_time, order_id |-> OrderId("ENTRY", 0),
               strategy_id |-> "caller", symbol |-> Symbol, quantity |-> q,
               order_type |-> MARKET, direction |-> dir, status |-> PENDING_SUBMIT]) :
     q \in 1..3, dir \in Sides}

InitBook ==
  /\ InitObjects /\ ControllerIdle /\ config = DequeConfig
  /\ last_op = [op |-> "init"]

BookDepth ==
  \E event \in BookDepthEvents :
    /\ Apply(process_depth_event(S, event))
    /\ last_op' = [op |-> "process_depth_event",
                   ignored |-> StaleOrForeign(S, event), command |-> event.command]
    /\ UNCHANGED <<pc, config, list_iter, market_left, last_market_ts, dispatched>>

\* the walk of a market order; the caller takes the events it produced
BookMarketOrder ==
  \E order \in BookMarketOrders :
    LET s1 == _execute_market_order(S, order)
    IN /\ Apply([s1 EXCEPT !.event_queue = <<>>])
       /\ last_op' = [op |-> "_execute_market_order",
                      events |-> Len(s1.event_queue)]
       /\ UNCHANGED <<pc, config, list_iter, market_left, last_market_ts, dispatched>>

NextBook == BookDepth \/ BookMarketOrder

SpecBook == InitBook /\ [][NextBook]_vars

\* the levels of a ladder, as the code reads them
LadderQtyPositive(ladder) == \A i \in 1..Len(ladder) : ladder[i].qty > 0
StrictlyDescending(ladder) ==
  \A i \in 1..(Len(ladder) - 1) : RGt(ladder[i].price, ladder[i + 1].price)
StrictlyAscending(ladder) ==
  \A i \in 1..(Len(ladder) - 1) : RLt(ladder[i].price, ladder[i + 1].price)

\* C9: after any interleaving of depth events and market-order walks every
\* level of both ladders has qty > 0, the bids are in strictly descending and
\* the asks in strictly ascending price order.
C9_BookOrdered ==
  /\ LadderQtyPositive(bids) /\ LadderQtyPositive(asks)
  /\ StrictlyDescending(bids) /\ StrictlyAscending(asks)

\* C9 witness: a market-order walk has partly consumed a ladder that still
\* holds two levels on each side.
C9_Witness ==
  /\ last_op.op = "_execute_market_order" /\ last_op.events > 0
  /\ Len(bids) >= 2 /\ Len(asks) >= 2

\* what C10 says a stale or foreign depth event leaves alone
BookFields(s) == <<s.bids, s.asks, s.best_bid, s.best_ask, s.last_update_time>>

\* C10 (frame part): a depth event of another symbol, or with a timestamp
\* strictly below last_update_time, leaves bids, asks, best_bid, best_ask and
\* last_update_time unchanged; and no accepted event lowers last_update_time.
C10_StaleIgnored ==
  \A event \in BookDepthEvents :
    LET s1 == process_depth_event(S, event)
    IN /\ (event.symbol # Symbol \/ event.timestamp < last_update_time)
            => BookFields(s1) = BookFields(S)
       /\ s1.last_update_time >= last_update_time

\* C10 witness: a depth event was ignored by a book that holds levels and
\* whose clock has advanced.
C10_Witness ==
  /\ last_op.op = "process_depth_event" /\ last_op.ignored
  /\ last_update_time > 0 /\ bids # <<>> /\ asks # <<>>

-----------------------------------------------------------------------------
(* core/portfolio.py *)

\* config['tick_value']
tick_value == Rat(25, 2)

\* self.holdings[symbol] of a defaultdict(int)
HoldingsOf(s, symbol) ==
  IF symbol \in Keys(s.holdings) THEN s.holdings[symbol] ELSE 0

update_market_price(s, event) ==
  [s EXCEPT !.last_market_price = DictSet(@, event.symbol, event.price)]

\* the sum of _update_equity over the symbols held
RECURSIVE UnrealizedPnl(_, _)
UnrealizedPnl(s, symbols) ==
  IF symbols = {} THEN Dec(0)
  ELSE LET symbol == CHOOSE x \in symbols : TRUE
           quantity == s.holdings[symbol]
           rest == UnrealizedPnl(s, symbols \ {symbol})
       IN IF /\ quantity # 0 /\ symbol \in Keys(s.last_market_price)
             /\ symbol \in Keys(s.positions_avg_price)
          THEN LET price_diff == RSub(s.last_market_price[symbol],
                                      s.positions_avg_price[symbol])
                   pnl_per_contract == RMul(RDiv(price_diff, TickSize), tick_value)
               IN RAdd(rest, RMul(pnl_per_contract, Dec(quantity)))
          ELSE rest

_update_equity(s, timestamp) ==
  LET current_equity == RAdd(s.cash, UnrealizedPnl(s, Keys(s.holdings)))
      n == Len(s.equity_curve)
  IN IF n = 0 \/ s.equity_curve[n][1] < timestamp
     THEN [s EXCEPT !.equity_curve = Append(@, <<timestamp, current_equity>>)]
     ELSE IF current_equity # s.equity_curve[n][2]
     THEN [s EXCEPT !.equity_curve[n] = <<timestamp, current_equity>>]
     ELSE s

\* a mutation of PositionRecord: the quantity is recorded without its sign
PositionRecordUnsigned(event, price, new_pos, comm) ==
  [entry_time |-> event.timestamp, entry_price |-> price, quantity |-> Abs(new_pos),
   direction |-> IF new_pos > 0 THEN "LONG" ELSE "SHORT", commission |-> comm]

PositionRecord(event, price, new_pos, comm) ==
  [entry_time |-> event.timestamp, entry_price |-> price, quantity |-> new_pos,
   direction |-> IF new_pos > 0 THEN "LONG" ELSE "SHORT", commission |-> comm]

\* a mutation of CashAfterFill: the commission is not charged
CashAfterFillNoCommission(cash0, price, qty, direction, comm) ==
  RSub(cash0, RMul(RMul(price, Dec(qty)), Dec(direction)))

\* self.cash -= (price * Decimal(qty) * Decimal(direction)) + comm
CashAfterFill(cash0, price, qty, direction, comm) ==
  RSub(cash0, RAdd(RMul(RMul(price, Dec(qty)), Dec(direction)), comm))

\* a mutation of ClosesOrFlips: a fill that lands exactly on zero is not a close
ClosesOrFlipsStrict(current_pos, new_pos) ==
  current_pos # 0 /\ new_pos * current_pos < 0

\* if current_pos != 0 and new_pos * current_pos <= 0
ClosesOrFlips(current_pos, new_pos) ==
  current_pos # 0 /\ new_pos * current_pos <= 0

update_fill(s, event) ==
  LET symbol == event.symbol
      qty == event.quantity_filled
      price == event.fill_price
      comm == event.commission
      direction == IF event.direction = BUY THEN 1 ELSE -1
      pos_change == qty * direction
      s1 == [s EXCEPT !.cash = CashAfterFill(@, price, qty, direction, comm)]
      current_pos == HoldingsOf(s, symbol)
      new_pos == current_pos + pos_change
      s2 ==
        IF ClosesOrFlips(current_pos, new_pos)
        THEN
          IF symbol \in Keys(s1.open_positions)
          THEN
            LET qty_closed == Min(Abs(current_pos), qty)
                entry_details == s1.open_positions[symbol]
                avg_entry_price == entry_details.entry_price
                pnl_dir == IF entry_details.direction = "LONG" THEN 1 ELSE -1
                pnl == RMul(RMul(RSub(price, avg_entry_price), Dec(pnl_dir)),
                            Dec(qty_closed))
                pnl_currency == RMul(RDiv(pnl, TickSize), tick_value)
                closed ==
                  [symbol |-> symbol, entry_time |-> entry_details.entry_time,
                   exit_time |-> event.timestamp,
                   direction |-> entry_details.direction,
                   entry_price |-> avg_entry_price, exit_price |-> price,
                   quantity |-> qty_closed, pnl |-> pnl_currency,
                   commission |-> RAdd(entry_details.commission, comm)]
                s1a == [s1 EXCEPT !.realized_pnl = RAdd(@, pnl_currency),
                                  !.trade_log = Append(@, closed)]
            IN IF new_pos = 0
               THEN [s1a EXCEPT !.open_positions = DictDel(@, symbol),
                                !.positions_avg_price = DictDel(@, symbol)]
               ELSE [s1a EXCEPT
                       !.positions_avg_price = DictSet(@, symbol, price),
                       !.open_positions =
                          DictSet(@, symbol, PositionRecord(event, price, new_pos, comm))]
          ELSE s1
        ELSE IF new_pos # 0
        THEN
          IF current_pos = 0
          THEN [s1 EXCEPT
                  !.positions_avg_price = DictSet(@, symbol, price),
                  !.open_positions =
                     DictSet(@, symbol, PositionRecord(event, price, new_pos, comm))]
          ELSE
            LET old_val == RMul(s1.positions_avg_price[symbol], Dec(current_pos))
                new_val == RMul(price, Dec(pos_change))
            IN [s1 EXCEPT
                  !.positions_avg_price =
                     DictSet(@, symbol, RDiv(RAdd(old_val, new_val), Dec(new_pos))),
                  !.open_positions[symbol].quantity = new_pos,
                  !.open_positions[symbol].commission = RAdd(@, comm)]
        ELSE s1
      s3 == [s2 EXCEPT !.holdings = IF new_pos = 0 THEN DictDel(@, symbol)
                                    ELSE DictSet(@, symbol, new_pos)]
  IN _update_equity(s3, event.timestamp)

-----------------------------------------------------------------------------
(* The portfolio under a sequence of fills and price updates *)

PfPrices == {RMul(Dec(k), TickSize) : k \in {4, 6}}
PfQtys == {1, 2}

PfFill(sym, dir, q, p) ==
  FillEvent([timestamp |-> Len(fills_processed) + 1,
             order_id |-> OrderId("ENTRY", Len(fills_processed) + 1),
             strategy_id |-> "caller", symbol |-> sym, direction |-> dir,
             quantity_filled |-> q, fill_price |-> p,
             commission |-> RMul(commission_per_contract, Dec(q))])

\* the fills a caller hands to update_fill, in time order
PfFills ==
  {PfFill(Symbol, dir, q, p) : dir \in Sides, q \in PfQtys, p \in PfPrices}
    \cup {PfFill(OtherSymbol, dir, 1, Dec(1)) : dir \in Sides}

InitPortfolio ==
  /\ InitObjects /\ ControllerIdle /\ config = DequeConfig
  /\ last_op = [op |-> "init"]

PortfolioFill ==
  /\ Len(fills_processed) < PfMaxFills
  /\ \E event \in PfFills :
       LET s1 == update_fill(S, event)
       IN /\ Apply([s1 EXCEPT !.fills_processed = Append(@, event)])
          /\ last_op' = [op |-> "update_fill",
                         branch |-> IF ClosesOrFlips(HoldingsOf(S, event.symbol),
                                                     HoldingsOf(s1, event.symbol))
                                    THEN "close" ELSE "open"]
  /\ UNCHANGED <<pc, config, list_iter, market_left, last_market_ts, dispatched>>

PortfolioPrice ==
  /\ \E p \in {RMul(Dec(5), TickSize)} :
       Apply(update_market_price(S,
               MarketData_TradeEvent([timestamp |-> Len(fills_processed),
                                      symbol |-> Symbol, price |-> p,
                                      quantity |-> 1, side |-> BUY])))
  /\ last_op' = [op |-> "update_market_price"]
  /\ UNCHANGED <<pc, config, list_iter, market_left, last_market_ts, dispatched>>

NextPortfolio == PortfolioFill \/ PortfolioPrice

SpecPortfolio == InitPortfolio /\ [][NextPortfolio]_vars

\* the sum over the fills of fill_price * quantity_filled * dir, and of the commissions
RECURSIVE SumNotional(_)
SumNotional(fills) ==
  IF fills = <<>> THEN Dec(0)
  ELSE LET f == Head(fills)
       IN RAdd(RMul(RMul(f.fill_price, Dec(f.quantity_filled)),
                    Dec(IF f.direction = BUY THEN 1 ELSE -1)),
               SumNotional(Tail(fills)))
RECURSIVE SumCommission(_)
SumCommission(fills) ==
  IF fills = <<>> THEN Dec(0)
  ELSE RAdd(Head(fills).commission, SumCommission(Tail(fills)))

\* C7: after any sequence of update_fill calls, cash equals initial_capital
\* minus the sum of fill_price * quantity_filled * dir over the fills minus the
\* sum of their commissions.
C7_CashEquation ==
  cash = RSub(RSub(initial_capital, SumNotional(fills_processed)),
              SumCommission(fills_processed))

\* C7 witness: three fills were processed, buys and sells among them.
C7_Witness ==
  /\ Len(fills_processed) >= 3
  /\ \E i, j \in 1..Len(fills_processed) :
       fills_processed[i].direction = BUY /\ fills_processed[j].direction = SELL

\* C8: for every symbol, holdings are zero (absent) if and only if the symbol
\* is absent from open_positions and from positions_avg_price.
C8_FlatIffNoPosition ==
  \A sym \in {Symbol, OtherSymbol} :
    (HoldingsOf(S, sym) = 0)
      <=> (sym \notin Keys(open_positions) /\ sym \notin Keys(positions_avg_price))

\* C8 witness: a fill has closed the position of one symbol while the other
\* symbol is still held.
C8_Witness ==
  /\ last_op.op = "update_fill" /\ last_op.branch = "close"
  /\ \E a, b \in {Symbol, OtherSymbol} :
       HoldingsOf(S, a) = 0 /\ HoldingsOf(S, b) # 0 /\ Len(trade_log) >= 1

-----------------------------------------------------------------------------
(* core/execution.py: resting orders and linked exits *)

\* a mutation of _cancel_linked_target: the resting target is left alone
CancelLinkedTargetNoop(s, triggered_stop_order_id, timestamp) == s

_cancel_linked_target(s, triggered_stop_order_id, timestamp) ==
  LET entry_id == IF triggered_stop_order_id \in Keys(s.submitted_orders)
                  THEN s.submitted_orders[triggered_stop_order_id].parent_order_id
                  ELSE None
  IN IF entry_id # None /\ entry_id \in Keys(s.linked_exit_orders)
     THEN LET target_id == s.linked_exit_orders[entry_id].target_id
          IN IF target_id # None /\ HasEntry(s.pending_limit_orders, target_id)
             THEN LET s1 == [s EXCEPT !.pending_limit_orders = EntryDel(@, target_id)]
                      s2 == _update_order_status(s1, target_id, CANCELLED, timestamp, None)
                  IN [s2 EXCEPT !.linked_exit_orders = DictDel(@, entry_id)]
             ELSE s
     ELSE s

_cancel_linked_stop(s, filled_target_order_id, timestamp) ==
  LET entry_id == IF filled_target_order_id \in Keys(s.submitted_orders)
                  THEN s.submitted_orders[filled_target_order_id].parent_order_id
                  ELSE None
  IN IF entry_id # None /\ entry_id \in Keys(s.linked_exit_orders)
     THEN LET stop_id == s.linked_exit_orders[entry_id].stop_id
          IN IF stop_id # None /\ HasEntry(s.pending_stop_orders, stop_id)
             THEN LET s1 == [s EXCEPT !.pending_stop_orders = EntryDel(@, stop_id)]
                      s2 == _update_order_status(s1, stop_id, CANCELLED, timestamp, None)
                  IN [s2 EXCEPT !.linked_exit_orders = DictDel(@, entry_id)]
             ELSE s
     ELSE s

\* a mutation of CanFill: the aggressor side of the trade is not looked at
CanFillAnySide(order, trade_event) ==
  \/ order.direction = BUY /\ RLe(trade_event.price, order.limit_price)
  \/ order.direction = SELL /\ RGe(trade_event.price, order.limit_price)

\* can_fill_buy or can_fill_sell of check_limit_fills
CanFill(order, trade_event) ==
  LET can_fill_buy == /\ order.direction = BUY /\ trade_event.side = SELL
                      /\ RLe(trade_event.price, order.limit_price)
      can_fill_sell == /\ order.direction = SELL /\ trade_event.side = BUY
                       /\ RGe(trade_event.price, order.limit_price)
  IN can_fill_buy \/ can_fill_sell

\* a mutation of LimitFillQty: what the trade leaves after the queue is filled,
\* whatever remains of the order
LimitFillQtyUncapped(at_limit, trade_qty, qty_ahead, qty_rem) ==
  IF at_limit THEN Max(0, trade_qty - qty_ahead) ELSE qty_rem

\* a mutation of LimitFillQty: the queue ahead is not waited for
LimitFillQtyNoQueue(at_limit, trade_qty, qty_ahead, qty_rem) ==
  IF at_limit THEN Min(trade_qty, qty_rem) ELSE qty_rem

\* fill_qty of check_limit_fills: trade_consumes is the trade quantity at the
\* limit price, else Decimal('inf')
LimitFillQty(at_limit, trade_qty, qty_ahead, qty_rem) ==
  IF at_limit THEN Min(Max(0, trade_qty - qty_ahead), qty_rem) ELSE qty_rem

\* one iteration of the loop of check_limit_fills
CheckLimitFill(s, order_id, trade_event) ==
  LET idx == EntryIndex(s.pending_limit_orders, order_id)
      data == s.pending_limit_orders[idx]
      order == data.order
      trade_price == trade_event.price
  IN IF order.symbol # trade_event.symbol THEN s
     ELSE IF ~CanFill(order, trade_event) THEN s
     ELSE
       LET qty_ahead == data.qty_ahead
           qty_rem == order.quantity - data.qty_filled
           at_limit == trade_price = order.limit_price
           fill_qty == LimitFillQty(at_limit, trade_event.quantity, qty_ahead, qty_rem)
           new_ahead == IF at_limit THEN Max(0, qty_ahead - trade_event.quantity) ELSE 0
           s1 == [s EXCEPT !.pending_limit_orders[idx].qty_ahead = new_ahead]
       IN IF fill_qty > 0
          THEN
            LET qty_filled == data.qty_filled + fill_qty
                s2 == [s1 EXCEPT !.pending_limit_orders[idx].qty_filled = qty_filled]
                fill ==
                  FillEvent([timestamp |-> trade_event.timestamp, order_id |-> order_id,
                             strategy_id |-> order.strategy_id, symbol |-> order.symbol,
                             direction |-> order.direction, quantity_filled |-> fill_qty,
                             fill_price |-> order.limit_price,
                             commission |-> RMul(commission_per_contract, Dec(fill_qty))])
                s3 == Enqueue(s2, fill)
            IN IF qty_filled >= order.quantity
               THEN LET s4 == [s3 EXCEPT !.pending_limit_orders = EntryDel(@, order_id)]
                        s5 == _update_order_status(s4, order_id, FILLED,
                                                   trade_event.timestamp, Some(qty_filled))
                    IN _cancel_linked_stop(s5, order_id, trade_event.timestamp)
               ELSE _update_order_status(s3, order_id, PARTIALLY_FILLED,
                                         trade_event.timestamp, Some(qty_filled))
          ELSE s1

\* for order_id, data in list(self.pending_limit_orders.items())
RECURSIVE CheckLimitFills(_, _, _)
CheckLimitFills(s, order_ids, trade_event) ==
  IF order_ids = <<>> THEN s
  ELSE CheckLimitFills(CheckLimitFill(s, Head(order_ids), trade_event),
                       Tail(order_ids), trade_event)

check_limit_fills(s, trade_event) ==
  CheckLimitFills(s, [i \in DOMAIN s.pending_limit_orders |->
                        s.pending_limit_orders[i].order_id], trade_event)

\* a mutation of StopTriggered: a trade exactly at the stop price does not
\* trigger
StopTriggeredStrict(order, trade_event) ==
  \/ order.direction = SELL /\ RLt(trade_event.price, order.stop_price)
  \/ order.direction = BUY /\ RGt(trade_event.price, order.stop_price)

\* triggered of check_stop_triggers
StopTriggered(order, trade_event) ==
  \/ order.direction = SELL /\ RLe(trade_event.price, order.stop_price)
  \/ order.direction = BUY /\ RGe(trade_event.price, order.stop_price)

\* a mutation of FollowUpOrder: the order is stamped with the time of the trade
FollowUpOrderNoLatency(order, order_id, trade_event) ==
  OrderEvent([timestamp |-> trade_event.timestamp,
              order_id |-> [order_id EXCEPT !.suffix = "_MKT"],
              strategy_id |-> order.strategy_id, symbol |-> order.symbol,
              quantity |-> order.quantity - order.filled_quantity,
              order_type |-> MARKET, direction |-> order.direction,
              status |-> PENDING_SUBMIT, parent_order_id |-> order_id])

\* market_order of check_stop_triggers
FollowUpOrder(order, order_id, trade_event) ==
  OrderEvent([timestamp |-> trade_event.timestamp + latency_signal_order_ns,
              order_id |-> [order_id EXCEPT !.suffix = "_MKT"],
              strategy_id |-> order.strategy_id, symbol |-> order.symbol,
              quantity |-> order.quantity - order.filled_quantity,
              order_type |-> MARKET, direction |-> order.direction,
              status |-> PENDING_SUBMIT, parent_order_id |-> order_id])

\* one iteration of the loop of check_stop_triggers
CheckStopTrigger(s, order_id, trade_event) ==
  LET order == s.pending_stop_orders[EntryIndex(s.pending_stop_orders, order_id)].order
      triggered == StopTriggered(order, trade_event)
  IN IF order.symbol # trade_event.symbol \/ ~triggered THEN s
     ELSE
       LET s1 == [s EXCEPT !.pending_stop_orders = EntryDel(@, order_id)]
           s2 == _update_order_status(s1, order_id, TRIGGERED, trade_event.timestamp, None)
           s3 == _cancel_linked_target(s2, order_id, trade_event.timestamp)
           market_order == FollowUpOrder(order, order_id, trade_event)
       IN IF market_order.quantity > 0
          THEN Enqueue([s3 EXCEPT !.submitted_orders =
                                     DictSet(@, market_order.order_id, market_order)],
                       market_order)
          ELSE s3

\* for order_id, order in list(self.pending_stop_orders.items())
RECURSIVE CheckStopTriggers(_, _, _)
CheckStopTriggers(s, order_ids, trade_event) ==
  IF order_ids = <<>> THEN s
  ELSE CheckStopTriggers(CheckStopTrigger(s, Head(order_ids), trade_event),
                         Tail(order_ids), trade_event)

check_stop_triggers(s, trade_event) ==
  CheckStopTriggers(s, [i \in DOMAIN s.pending_stop_orders |->
                          s.pending_stop_orders[i].order_id], trade_event)

\* the child order of _activate_linked_exits
ExitOrder(s, entry_order_id, entry_fill_event, order_id, order_type, price) ==
  LET kw == [timestamp |-> entry_fill_event.timestamp + latency_signal_order_ns,
             order_id |-> order_id, strategy_id |-> entry_fill_event.strategy_id,
             symbol |-> entry_fill_event.symbol,
             quantity |-> entry_fill_event.quantity_filled, order_type |-> order_type,
             direction |-> IF entry_fill_event.direction = BUY THEN SELL ELSE BUY,
             status |-> PENDING_SUBMIT, parent_order_id |-> entry_order_id]
  IN IF order_type = STOP_MARKET THEN OrderEvent([stop_price |-> price] @@ kw)
     ELSE OrderEvent([limit_price |-> price] @@ kw)

_activate_linked_exits(s, entry_order_id, entry_fill_event) ==
  IF entry_order_id \notin Keys(s.linked_exit_orders) THEN s
  ELSE
    LET sa ==
          IF /\ Truthy(entry_fill_event.linked_stop_price)
             /\ s.linked_exit_orders[entry_order_id].stop_id = None
          THEN
            LET stop_id == OrderId("STOP", s.order_counter + 1)
                stop_order == ExitOrder(s, entry_order_id, entry_fill_event, stop_id,
                                        STOP_MARKET, entry_fill_event.linked_stop_price)
            IN Enqueue([s EXCEPT !.order_counter = @ + 1,
                                 !.linked_exit_orders[entry_order_id].stop_id = stop_id,
                                 !.submitted_orders = DictSet(@, stop_id, stop_order)],
                       stop_order)
          ELSE s
    IN IF /\ Truthy(entry_fill_event.linked_target_price)
          /\ sa.linked_exit_orders[entry_order_id].target_id = None
       THEN
         LET target_id == OrderId("TARGET", sa.order_counter + 1)
             target_order == ExitOrder(sa, entry_order_id, entry_fill_event, target_id,
                                       LIMIT, entry_fill_event.linked_target_price)
         IN Enqueue([sa EXCEPT !.order_counter = @ + 1,
                               !.linked_exit_orders[entry_order_id].target_id = target_id,
                               !.submitted_orders = DictSet(@, target_id, target_order)],
                    target_order)
       ELSE sa

-----------------------------------------------------------------------------
(* The execution handler driven by a caller: signals, the events it queued
   handed back first-in first-out, and market trades.  A fill handed back is
   passed to _activate_linked_exits, as that method's contract says.  A new
   entry signal is sent only when nothing is queued and no limit order rests,
   as the strategy signals only when it has no active order. *)

ExStopTick == 3
ExTargetTick == 7
ExPrice(k) == RMul(Dec(k), TickSize)

\* a book with one level on each side, around which the exits are placed
ExBook(k, q) == <<[price |-> ExPrice(k), qty |-> q, num_orders |-> 1]>>

\* entry signals with a stop and a target on either side of the book
ExSignals ==
  {SignalEvent([timestamp |-> current_time, strategy_id |-> "caller",
                symbol |-> Symbol, direction |-> dir, order_type |-> MARKET,
                quantity |-> q,
                signal_stop_price |->
                  ExPrice(IF dir = BUY THEN ExStopTick ELSE ExTargetTick),
                signal_target_price |->
                  ExPrice(IF dir = BUY THEN ExTargetTick ELSE ExStopTick)]) :
     dir \in Sides, q \in {1, 2}}

ExTrades ==
  {MarketData_TradeEvent([timestamp |-> current_time, symbol |-> Symbol,
                          price |-> ExPrice(k), quantity |-> 1, side |-> side]) :
     k \in {ExStopTick, ExTargetTick}, side \in Sides}

InitExec ==
  /\ InitComponents
  /\ \E a \in {ExBook(5, 8), ExBook(5, 1), <<>>} : InitOrderBook(ExBook(4, 8), a)
  /\ ControllerIdle /\ config = DequeConfig
  /\ last_op = [op |-> "init"]

ExecFrame == UNCHANGED <<pc, config, list_iter, market_left, last_market_ts>>
ExecHarness == ExecFrame /\ UNCHANGED dispatched

ExecSignal ==
  /\ order_counter < 3 * ExMaxSignals - 2
  /\ event_queue = <<>> /\ pending_limit_orders = <<>>
  /\ \E event \in ExSignals : Apply(process_signal(S, event))
  /\ last_op' = [op |-> "process_signal"]
  /\ ExecHarness

\* the caller takes the oldest queued event and hands it back
ExecDispatch ==
  /\ event_queue # <<>>
  /\ LET event == Head(event_queue)
         s0 == [S EXCEPT !.event_queue = Tail(@),
                         !.current_time = Max(@, event.timestamp)]
     IN IF event.event_type = ORDER /\ event.status = PENDING_SUBMIT
        THEN Apply(execute_order(s0, event)) /\ last_op' = [op |-> "execute_order"]
        ELSE IF event.event_type = FILL
        THEN /\ Apply([_activate_linked_exits(s0, event.order_id, event)
                         EXCEPT !.fills_processed = Append(@, event)])
             /\ last_op' = [op |-> "_activate_linked_exits"]
        ELSE Apply(s0) /\ last_op' = [op |-> "status"]
  /\ dispatched' = Append(dispatched, Head(event_queue))
  /\ ExecFrame

\* the ids that left a pending table during a call
Left(before, after) ==
  {before[i].order_id : i \in DOMAIN before} \ {after[i].order_id : i \in DOMAIN after}

ExecTrade ==
  /\ \E trade_event \in ExTrades :
       LET s1 == check_limit_fills(S, trade_event)
           s2 == check_stop_triggers(s1, trade_event)
       IN /\ Apply(s2)
          /\ last_op' = [op |-> "trade",
                         completed |-> Left(pending_limit_orders, s1.pending_limit_orders),
                         triggered |-> Left(s1.pending_stop_orders, s2.pending_stop_orders),
                         cancelled |-> Left(s1.pending_limit_orders, s2.pending_limit_orders)]
  /\ ExecHarness

NextExec == ExecSignal \/ ExecDispatch \/ ExecTrade

SpecExec == InitExec /\ [][NextExec]_vars

\* a CANCELLED status event for the order was appended to the queue by the
\* call that led from state s0 to state s1
CancelledQueued(s0, s1, order_id) ==
  \E i \in (Len(s0.event_queue) + 1)..Len(s1.event_queue) :
    /\ s1.event_queue[i].event_type = ORDER
    /\ s1.event_queue[i].status = CANCELLED
    /\ s1.event_queue[i].order_id = order_id

\* a fill for the order is among the events the call appended
FillQueued(s0, s1, order_id) ==
  \E i \in (Len(s0.event_queue) + 1)..Len(s1.event_queue) :
    /\ s1.event_queue[i].event_type = FILL
    /\ s1.event_queue[i].order_id = order_id

\* the entries whose stop and target children both rest in the pending tables
BothChildrenPending ==
  {entry_id \in Keys(linked_exit_orders) :
     LET exits == linked_exit_orders[entry_id]
     IN /\ exits.stop_id # None /\ exits.target_id # None
        /\ HasEntry(pending_stop_orders, exits.stop_id)
        /\ HasEntry(pending_limit_orders, exits.target_id)}

Filled(order_id) ==
  \E i \in DOMAIN fills_processed : fills_processed[i].order_id = order_id

\* C2: for an entry with a linked stop and a linked target, the target child
\* and the stop child (through its follow-up MARKET order) are never both filled.
C2_AtMostOneChildFills ==
  \A entry_id \in Keys(linked_exit_orders) :
    LET exits == linked_exit_orders[entry_id]
    IN (exits.stop_id # None /\ exits.target_id # None)
         => ~(/\ Filled(exits.target_id)
              /\ Filled([exits.stop_id EXCEPT !.suffix = "_MKT"]))

\* C3: when check_limit_fills completes the fill of a target whose sibling stop
\* is pending, the same call removes the stop from pending_stop_orders, queues
\* a CANCELLED status event for it and removes the entry's linkage record.
C3_TargetFillCancelsStop ==
  \A trade_event \in ExTrades :
    LET s1 == check_limit_fills(S, trade_event)
    IN \A entry_id \in BothChildrenPending :
         LET exits == linked_exit_orders[entry_id]
         IN ~HasEntry(s1.pending_limit_orders, exits.target_id)
              => /\ ~HasEntry(s1.pending_stop_orders, exits.stop_id)
                 /\ CancelledQueued(S, s1, exits.stop_id)
                 /\ entry_id \notin Keys(s1.linked_exit_orders)

\* C4: when check_stop_triggers triggers a stop whose sibling target rests in
\* pending_limit_orders, the same call removes the target from
\* pending_limit_orders, queues a CANCELLED status event for it and removes the
\* entry's linkage record, and no later trade fills the target.
C4_StopTriggerCancelsTarget ==
  \A trade_event \in ExTrades :
    LET s1 == check_stop_triggers(S, trade_event)
    IN \A entry_id \in BothChildrenPending :
         LET exits == linked_exit_orders[entry_id]
         IN ~HasEntry(s1.pending_stop_orders, exits.stop_id)
              => /\ ~HasEntry(s1.pending_limit_orders, exits.target_id)
                 /\ CancelledQueued(S, s1, exits.target_id)
                 /\ entry_id \notin Keys(s1.linked_exit_orders)
                 /\ \A later \in ExTrades :
                      ~FillQueued(s1, check_limit_fills(s1, later), exits.target_id)

\* C4 witness: a trade has triggered a stop and the call cancelled the resting
\* target, whose CANCELLED status event is in the queue.
C4_Witness ==
  /\ last_op.op = "trade" /\ last_op.triggered # {} /\ last_op.cancelled # {}
  /\ \E i \in DOMAIN event_queue :
       /\ event_queue[i].event_type = ORDER /\ event_queue[i].status = CANCELLED
       /\ event_queue[i].order_id \in last_op.cancelled

\* a trade has completed the fill of a target while its sibling stop rests
TargetFilledStopPending ==
  /\ last_op.op = "trade" /\ last_op.completed # {}
  /\ \E entry_id \in Keys(linked_exit_orders) :
       /\ linked_exit_orders[entry_id].target_id \in last_op.completed
       /\ HasEntry(pending_stop_orders, linked_exit_orders[entry_id].stop_id)

-----------------------------------------------------------------------------
(* strategy/base.py, strategy/footprint_diagonal.py *)

\* Strategy.__init__: self.symbol and self.strategy_id.  As written the
\* controller object is passed for the symbol.
StrategySymbol == IF config.wiring = "as_written" THEN "<BacktestController>" ELSE Symbol
strategy_id == "FootprintDiagonalRatioStrategy_" \o StrategySymbol

\* params.get(...) defaults of FootprintDiagonalRatioStrategy.__init__
percentage_threshold == Dec(150)
enable_zero_compares == FALSE
SET_0_TO_1 == "SET_0_TO_1"
SET_PERC_1000 == "SET_PERC_1000"
zero_compare_action == SET_0_TO_1
stop_ticks == 11
risk_reward == Rat(5, 2)
min_liquidity_check == 0
bar_interval_ns == config.bar_interval_ns

\* the bar start is the timestamp aligned down to a multiple of the bar interval
_reset_bar_state(s, timestamp) ==
  [s EXCEPT !.volume_profile = EmptyDict,
            !.current_bar_start_time =
               Some((timestamp \div bar_interval_ns) * bar_interval_ns)]

\* a mutation of _generate_signal: the lock is set and no signal is queued
_generate_signal_unqueued(s, direction, order_type, quantity, signal_trigger_price, signal_stop_price, signal_target_price, timestamp) ==
  IF s.active_order_id # None THEN s
  ELSE [s EXCEPT !.active_order_id = Some("PENDING_ENTRY")]

_generate_signal(s, direction, order_type, quantity, signal_trigger_price, signal_stop_price, signal_target_price, timestamp) ==
  IF s.active_order_id # None THEN s
  ELSE
    LET signal_time == IF timestamp # None THEN timestamp.some ELSE s.last_update_time
        sig == SignalEvent([timestamp |-> signal_time, strategy_id |-> strategy_id,
                            symbol |-> StrategySymbol, direction |-> direction,
                            order_type |-> order_type, quantity |-> quantity,
                            signal_trigger_price |-> signal_trigger_price,
                            signal_stop_price |-> signal_stop_price,
                            signal_target_price |-> signal_target_price])
    IN [Enqueue(s, sig) EXCEPT !.active_order_id = Some("PENDING_ENTRY")]

\* sorted(...) of a set of prices
RECURSIVE SortedPrices(_)
SortedPrices(prices) ==
  IF prices = {} THEN <<>>
  ELSE LET lo == CHOOSE x \in prices : \A y \in prices : RLe(x, y)
       IN <<lo>> \o SortedPrices(prices \ {lo})

\* the diagonal ratio of one price level, None when the level is skipped
PercRatio(bid_vol, ask_vol_diag) ==
  LET zero == bid_vol = 0 \/ ask_vol_diag = 0
      set1 == zero /\ zero_compare_action = SET_0_TO_1
      d_bid == IF set1 /\ bid_vol = 0 THEN 1 ELSE bid_vol
      d_ask == IF set1 /\ ask_vol_diag = 0 THEN 1 ELSE ask_vol_diag
  IN IF zero /\ ~enable_zero_compares THEN None
     ELSE IF zero /\ zero_compare_action = SET_PERC_1000
     THEN (IF bid_vol = 0 THEN Dec(1000) ELSE Dec(-1000))
     ELSE IF ask_vol_diag >= bid_vol
     THEN (IF d_bid > 0 THEN RMul(Rat(d_ask, d_bid), Dec(100)) ELSE Dec(1000))
     ELSE (IF d_ask > 0 THEN RMul(Rat(d_bid, d_ask), Dec(-100)) ELSE Dec(-1000))

\* the loop of _calculate_and_signal over prices_with_bids
RECURSIVE CalculateLoop(_, _, _)
CalculateLoop(s, prices_with_bids, timestamp) ==
  IF prices_with_bids = <<>> THEN s
  ELSE
    LET price_bid == Head(prices_with_bids)
        bid_vol == s.volume_profile[price_bid].bid_vol
        price_ask_diag == RAdd(price_bid, TickSize)
        ask_vol_diag == IF price_ask_diag \in Keys(s.volume_profile)
                        THEN s.volume_profile[price_ask_diag].ask_vol ELSE 0
        perc_ratio == PercRatio(bid_vol, ask_vol_diag)
        signal_dir ==
          IF perc_ratio = None THEN None
          ELSE IF RGt(perc_ratio, Dec(0)) /\ RGe(perc_ratio, percentage_threshold)
          THEN Some(BUY)
          ELSE IF RLt(perc_ratio, Dec(0)) /\ RLe(perc_ratio, RNeg(percentage_threshold))
          THEN Some(SELL)
          ELSE None
        bbo == get_bbo(s)
        illiquid ==
          /\ min_liquidity_check > 0
          /\ \/ signal_dir = Some(BUY) /\ bbo[4] < min_liquidity_check
             \/ signal_dir = Some(SELL) /\ bbo[2] < min_liquidity_check
    IN IF signal_dir = None \/ s.current_position # 0 \/ illiquid
       THEN CalculateLoop(s, Tail(prices_with_bids), timestamp)
       ELSE
         LET dir == signal_dir.some
             trigger_price == IF dir = BUY THEN price_ask_diag ELSE price_bid
             stop_dist == RMul(Dec(stop_ticks), TickSize)
             target_dist == RMul(stop_dist, risk_reward)
             stop_price == IF dir = BUY THEN RSub(trigger_price, stop_dist)
                           ELSE RAdd(trigger_price, stop_dist)
             target_price == IF dir = BUY THEN RAdd(trigger_price, target_dist)
                             ELSE RSub(trigger_price, target_dist)
         IN _generate_signal(s, dir, MARKET, 1, trigger_price, stop_price,
                             target_price, Some(timestamp))

_calculate_and_signal(s, timestamp) ==
  IF s.volume_profile = EmptyDict \/ Truthy(s.active_order_id) THEN s
  ELSE CalculateLoop(s, SortedPrices({p \in Keys(s.volume_profile) :
                                        s.volume_profile[p].bid_vol > 0}), timestamp)

\* self.volume_profile[price][field] += quantity on a defaultdict
AddVolume(s, price, field, quantity) ==
  LET old == IF price \in Keys(s.volume_profile) THEN s.volume_profile[price]
             ELSE [bid_vol |-> 0, ask_vol |-> 0]
  IN [s EXCEPT !.volume_profile =
        DictSet(@, price, IF field = "bid_vol"
                          THEN [old EXCEPT !.bid_vol = @ + quantity]
                          ELSE [old EXCEPT !.ask_vol = @ + quantity])]

\* a mutation of BarElapsed: a trade exactly at the end of the bar is still
\* counted in it
BarElapsedStrict(timestamp, bar_end) == timestamp > bar_end

\* event.timestamp >= self.current_bar_start_time + self.bar_interval_ns
BarElapsed(timestamp, bar_end) == timestamp >= bar_end

\* a mutation of on_order_status: the parent of the order is not looked at
OnOrderStatusAnyParent(s, event) ==
  IF event.status \in {FILLED, REJECTED, CANCELLED}
  THEN [s EXCEPT !.active_order_id = None] ELSE s

on_market_data(s, event) ==
  IF event.event_type # MARKET_TRADE \/ event.symbol # StrategySymbol THEN s
  ELSE
    LET s1 == IF s.current_bar_start_time = None
              THEN _reset_bar_state(s, event.timestamp) ELSE s
        bar_end == s1.current_bar_start_time.some + bar_interval_ns
        s2 == IF BarElapsed(event.timestamp, bar_end)
              THEN _reset_bar_state(
                     IF s1.volume_profile # EmptyDict
                     THEN _calculate_and_signal(s1, bar_end - 1) ELSE s1,
                     event.timestamp)
              ELSE s1
    IN IF event.side = SELL THEN AddVolume(s2, event.price, "bid_vol", event.quantity)
       ELSE AddVolume(s2, event.price, "ask_vol", event.quantity)

\* a mutation of on_fill: the filled quantity is added whatever the direction
on_fill_unsigned(s, event) ==
  IF event.strategy_id # strategy_id THEN s
  ELSE [s EXCEPT !.current_position = @ + event.quantity_filled,
                 !.active_order_id = IF s.current_position + event.quantity_filled = 0
                                     THEN None ELSE @]

on_fill(s, event) ==
  IF event.strategy_id # strategy_id THEN s
  ELSE LET position == s.current_position
                         + event.quantity_filled * (IF event.direction = BUY THEN 1 ELSE -1)
       IN [s EXCEPT !.current_position = position,
                    !.active_order_id = IF position = 0 THEN None ELSE @]

on_order_status(s, event) ==
  IF event.strategy_id # strategy_id THEN s
  ELSE IF IsTerminal(event.status) /\ ~Truthy(event.parent_order_id)
  THEN [s EXCEPT !.active_order_id = None]
  ELSE s

-----------------------------------------------------------------------------
(* backtest.py: the controller *)

\* OrderBook._initialize_synthetic_data: ten levels on each side of 5950.00
SyntheticBids ==
  [i \in 1..10 |-> [price |-> RSub(Dec(5950), RMul(Dec(i - 1), TickSize)),
                    qty |-> 100 * (10 - (i - 1)), num_orders |-> 5]]
SyntheticAsks ==
  [i \in 1..10 |-> [price |-> RAdd(RAdd(Dec(5950), TickSize), RMul(Dec(i - 1), TickSize)),
                    qty |-> 100 * ((i - 1) + 1), num_orders |-> 5]]

Scenarios == {"long_target", "long_stop", "short_target", "short_stop"}
\* 'short' in scenario, 'target' in scenario
IsShort(scenario) == scenario \in {"short_target", "short_stop"}
IsTarget(scenario) == scenario \in {"long_target", "short_target"}

\* the first event of _run_test_scenario
ScenarioBaseTrade ==
  MarketData_TradeEvent([timestamp |-> 1, symbol |-> Symbol,
                         price |-> Rat(595050, 100), quantity |-> 1, side |-> BUY])

_run_test_scenario(s) ==
  LET scenario == config.test_scenario.some
      direction == IF IsShort(scenario) THEN SELL ELSE BUY
      trigger_price == IF IsShort(scenario) THEN Rat(595075, 100) ELSE Rat(595025, 100)
      stop_price == IF IsShort(scenario) THEN Rat(595350, 100) ELSE Rat(594750, 100)
      target_price == IF IsShort(scenario) THEN Rat(5943875, 1000) ELSE Rat(5956625, 1000)
      s1 == _add_event(s, ScenarioBaseTrade)
      s2 == _add_event(s1,
              SignalEvent([timestamp |-> 2, strategy_id |-> strategy_id,
                           symbol |-> Symbol, direction |-> direction,
                           order_type |-> MARKET, quantity |-> 1,
                           signal_trigger_price |-> trigger_price,
                           signal_stop_price |-> stop_price,
                           signal_target_price |-> target_price]))
      exit_price == IF IsTarget(scenario) THEN target_price ELSE stop_price
      aggressor == IF direction = SELL THEN BUY ELSE SELL
  IN _add_event(s2,
       MarketData_TradeEvent([timestamp |-> 3, symbol |-> Symbol, price |-> exit_price,
                              quantity |-> 10, side |-> aggressor]))

\* Portfolio.on_order_status only logs
Portfolio_on_order_status(s, event) == s

\* the body of the loop of run after the max_events test: dispatch by event type
Dispatch(s, event) ==
  IF event.event_type = SIGNAL THEN process_signal(s, event)
  ELSE IF event.event_type = ORDER
  THEN IF event.status = PENDING_SUBMIT THEN execute_order(s, event)
       ELSE on_order_status(Portfolio_on_order_status(s, event), event)
  ELSE IF event.event_type = FILL
  THEN on_fill([update_fill(s, event) EXCEPT !.fills_processed = Append(@, event)], event)
  ELSE IF event.event_type = MARKET_DEPTH THEN process_depth_event(s, event)
  ELSE check_stop_triggers(
         check_limit_fills(on_market_data(update_market_price(s, event), event), event),
         event)

\* the configurations of a run: the test scenarios with small latencies and
\* with the latencies of 100 us and 500 us (int(us * 1000) ns), and a market
\* stream
ScenarioLatencies ==
  {<<l1, l2>> : l1 \in {0, 1}, l2 \in {0, 1}} \union {<<100 * 1000, 500 * 1000>>}
ScenarioConfigs ==
  {[queue |-> "controller", wiring |-> w, test_scenario |-> Some(sc),
    max_events |-> m, latency_data_signal_ns |-> l[1], latency_signal_order_ns |-> l[2],
    bar_interval_ns |-> 60] :
     w \in {"as_written", "repaired"}, sc \in Scenarios, m \in {None, Some(5)},
     l \in ScenarioLatencies}
StreamConfigs ==
  {[queue |-> "controller", wiring |-> w, test_scenario |-> None,
    max_events |-> m, latency_data_signal_ns |-> 1, latency_signal_order_ns |-> 1,
    bar_interval_ns |-> 2] :
     w \in {"as_written", "repaired"}, m \in {None, Some(2)}}

\* the events the data loader streams at a time: trades of the symbol around
\* one price, a depth event of the symbol
MarketEvents(ts) ==
  {MarketData_TradeEvent([timestamp |-> ts, symbol |-> Symbol,
                          price |-> ExPrice(IF side = SELL THEN 4 ELSE 5),
                          quantity |-> q, side |-> side]) :
     side \in Sides, q \in {1, 2}}
  \union
  {MarketData_DepthEvent([timestamp |-> ts, symbol |-> Symbol, side |-> SELL,
                          price |-> ExPrice(4), quantity |-> 1, num_orders |-> 1,
                          command |-> INSERT])}

Init ==
  /\ config \in ScenarioConfigs \union StreamConfigs
  /\ InitComponents
  /\ IF config.test_scenario # None THEN InitOrderBook(SyntheticBids, SyntheticAsks)
     ELSE InitOrderBook(<<>>, <<>>)
  /\ pc = "start" /\ list_iter = 0 /\ last_market_ts = 0
  /\ market_left = IF config.test_scenario # None THEN 0 ELSE MaxMarketEvents
  /\ last_op = [op |-> "init"]

RunFrame == UNCHANGED <<config>>

\* run up to the merge: the scenario events are queued.  As written the second
\* event cannot be built (OrderType is not defined) and run raises.
RunStart ==
  /\ pc = "start"
  /\ IF config.test_scenario = None
     THEN Apply(S) /\ pc' = "loop"
     ELSE IF config.wiring = "as_written"
     THEN Apply(_add_event(S, ScenarioBaseTrade)) /\ pc' = "raised"
     ELSE Apply(_run_test_scenario(S)) /\ pc' = "loop"
  /\ last_op' = [op |-> "start"]
  /\ UNCHANGED <<list_iter, market_left, last_market_ts, dispatched>>
  /\ RunFrame

\* heapq.merge(self.event_queue, market_stream).  With a scenario the market
\* stream is empty and the merge yields from the list iterator of event_queue,
\* which reads the list by index and sees what is pushed meanwhile.  Without
\* one the list is empty when the merge starts, its iterator is exhausted at
\* once, and the merge yields the market stream alone.
ScenarioHasNext == config.test_scenario # None /\ list_iter < Len(event_queue)
StreamHasNext == config.test_scenario = None /\ market_left > 0

\* a mutation of OverMaxEvents: the test is made one event late
OverMaxEventsLate == config.max_events # None /\ count > config.max_events.some

OverMaxEvents == config.max_events # None /\ count + 1 > config.max_events.some

\* one iteration of the loop on the event the merge yields
Iterate(event) ==
  IF OverMaxEvents
  THEN /\ Apply(_update_equity([S EXCEPT !.current_time = event.timestamp,
                                         !.count = @ + 1], event.timestamp))
       /\ pc' = "done"
       /\ dispatched' = dispatched
       /\ last_op' = [op |-> "finish", stop |-> "max_events"]
  ELSE /\ Apply(Dispatch([S EXCEPT !.current_time = event.timestamp,
                                   !.count = @ + 1], event))
       /\ pc' = "loop"
       /\ dispatched' = Append(dispatched, event)
       /\ last_op' = [op |-> "dispatch"]

RunScenarioEvent ==
  /\ pc = "loop" /\ ScenarioHasNext
  /\ Iterate(event_queue[list_iter + 1])
  /\ list_iter' = list_iter + 1
  /\ UNCHANGED <<market_left, last_market_ts>>
  /\ RunFrame

RunMarketEvent ==
  /\ pc = "loop" /\ StreamHasNext
  /\ \E ts \in last_market_ts..MaxTime :
       /\ \E event \in MarketEvents(ts) : Iterate(event)
       /\ last_market_ts' = ts
  /\ market_left' = market_left - 1
  /\ UNCHANGED <<list_iter>>
  /\ RunFrame

\* the merge is exhausted (a market stream may end at any point), or the user
\* interrupts: the finally block records the equity
RunFinish ==
  /\ pc = "loop"
  /\ Apply(_update_equity(S, current_time))
  /\ pc' = "done"
  /\ last_op' = [op |-> "finish",
                 stop |-> IF ScenarioHasNext THEN "interrupt" ELSE "exhausted"]
  /\ UNCHANGED <<list_iter, market_left, last_market_ts, dispatched>>
  /\ RunFrame

Next == RunStart \/ RunScenarioEvent \/ RunMarketEvent \/ RunFinish

Spec == Init /\ [][Next]_vars

IsExitChild(order, fill, order_type, price) ==
  /\ order.order_type = order_type
  /\ (IF order_type = STOP_MARKET THEN order.stop_price ELSE order.limit_price) = price
  /\ order.direction = (IF fill.direction = BUY THEN SELL ELSE BUY)
  /\ order.quantity = fill.quantity_filled
  /\ order.timestamp = fill.timestamp + latency_signal_order_ns
  /\ order.status = PENDING_SUBMIT
  /\ order.parent_order_id = fill.order_id

\* the fill the loop has just dispatched, of an entry registered in
\* linked_exit_orders with a linked stop and a linked target price
LinkedEntryFillDispatched ==
  /\ last_op.op = "dispatch"
  /\ LET fill == dispatched[Len(dispatched)]
     IN /\ fill.event_type = FILL
        /\ fill.order_id \in Keys(linked_exit_orders)
        /\ Truthy(fill.linked_stop_price) /\ Truthy(fill.linked_target_price)

Endogenous(event) == event.event_type \in {SIGNAL, ORDER, FILL}

-----------------------------------------------------------------------------
(* Depth events replayed, and the depth rows of data/loader.py *)

\* C11: in every reachable book state, applying a depth event twice in a row
\* yields the same bids, asks, best_bid, best_ask and last_update_time as
\* applying it once.
C11_DepthReplayIdempotent ==
  \A event \in BookDepthEvents :
    LET once == process_depth_event(S, event)
    IN BookFields(process_depth_event(once, event)) = BookFields(once)

\* C11 witness: an accepted depth event has set a level of a book that holds
\* levels on both sides.
C11_Witness ==
  /\ last_op.op = "process_depth_event" /\ ~last_op.ignored
  /\ bids # <<>> /\ asks # <<>> /\ last_update_time > 0

\* the members UNKNOWN_4 .. UNKNOWN_7 of OrderCommand
UnknownCommand(code) ==
  IF code = 4 THEN UNKNOWN_4
  ELSE IF code = 5 THEN "UNKNOWN_5"
  ELSE IF code = 6 THEN "UNKNOWN_6"
  ELSE "UNKNOWN_7"

\* OrderCommand(int(row[1])); a ValueError gives UPDATE
OrderCommandOfCode(code) ==
  IF code = 1 THEN INSERT
  ELSE IF code = 2 THEN UPDATE
  ELSE IF code = 3 THEN DELETE
  ELSE IF code \in 4..7 THEN UnknownCommand(code)
  ELSE UPDATE

_determine_side_from_flags(flags) == IF flags % 2 = 1 THEN SELL ELSE BUY

\* a row of the depth table: timestamp, command, flags, num_orders, price, qty.
\* The price column is taken as the decimal it prints as.
_create_event_from_row(row) ==
  MarketData_DepthEvent([timestamp |-> row[1], symbol |-> Symbol,
                         price |-> row[5], quantity |-> row[6],
                         side |-> _determine_side_from_flags(row[3]),
                         command |-> OrderCommandOfCode(row[2]),
                         flags |-> row[3], num_orders |-> row[4]])

\* depth rows with a command code other than 1, 2 and 3
OtherCommandRows ==
  {<<ts, code, flags, 1, p, q>> :
     ts \in 0..BookMaxTime, code \in {0, 4, 5, 6, 7, 8}, flags \in {0, 1},
     p \in BookPrices, q \in BookQtys}

\* C12: a depth row with a command code other than 1, 2 and 3 has the same
\* effect on the book as an UPDATE of the same side, price, quantity and
\* num_orders.
C12_OtherCommandIsUpdate ==
  \A row \in OtherCommandRows :
    LET event == _create_event_from_row(row)
    IN BookFields(process_depth_event(S, event))
         = BookFields(process_depth_event(S, [event EXCEPT !.command = UPDATE]))

-----------------------------------------------------------------------------
(* Queue position *)

\* the total quantity of the levels of a ladder priced strictly above, and
\* strictly below, a price
RECURSIVE QtyAbove(_, _)
QtyAbove(ladder, p) ==
  IF ladder = <<>> THEN 0
  ELSE (IF RGt(Head(ladder).price, p) THEN Head(ladder).qty ELSE 0)
         + QtyAbove(Tail(ladder), p)
RECURSIVE QtyBelow(_, _)
QtyBelow(ladder, p) ==
  IF ladder = <<>> THEN 0
  ELSE (IF RLt(Head(ladder).price, p) THEN Head(ladder).qty ELSE 0)
         + QtyBelow(Tail(ladder), p)

\* C17: for every book state and price p, estimate_quantity_ahead(p, BUY) is
\* the total quantity of the bid levels priced strictly higher than p, and
\* estimate_quantity_ahead(p, SELL) the total quantity of the ask levels priced
\* strictly lower than p.
C17_QuantityAheadIsBetterLevels ==
  \A p \in BookPrices :
    /\ estimate_quantity_ahead(S, p, BUY) = QtyAbove(bids, p)
    /\ estimate_quantity_ahead(S, p, SELL) = QtyBelow(asks, p)

-----------------------------------------------------------------------------
(* The ExecutionHandler placing MARKET and LIMIT orders on books of up to two
   levels a side, and trades reaching the resting limit orders *)

OrdMaxOrders == 2

\* a ladder of a best and a second level; a level of quantity 0 is absent
OrdLadder(best_tick, q_best, second_tick, q_second) ==
  (IF q_best > 0 THEN ExBook(best_tick, q_best) ELSE <<>>)
    \o (IF q_second > 0 THEN ExBook(second_tick, q_second) ELSE <<>>)

OrdBids == {OrdLadder(2, q1, 1, q2) : q1 \in {0, 1}, q2 \in {0, 2}}
OrdAsks == {OrdLadder(3, q1, 4, q2) : q1 \in {0, 1}, q2 \in {0, 2}}

OrdSignals ==
  {SignalEvent([timestamp |-> current_time, strategy_id |-> "caller",
                symbol |-> Symbol, direction |-> dir, order_type |-> MARKET,
                quantity |-> q]) : dir \in Sides, q \in {1, 2, 4}}
  \cup
  {SignalEvent([timestamp |-> current_time, strategy_id |-> "caller",
                symbol |-> Symbol, direction |-> dir, order_type |-> LIMIT,
                quantity |-> 2, limit_price |-> ExPrice(k)]) :
     dir \in Sides, k \in 1..4}
  \cup
  {SignalEvent([timestamp |-> current_time, strategy_id |-> "caller",
                symbol |-> Symbol, direction |-> dir, order_type |-> MARKET,
                quantity |-> 1,
                signal_stop_price |-> ExPrice(IF dir = BUY THEN 1 ELSE 4),
                signal_target_price |-> ExPrice(IF dir = BUY THEN 4 ELSE 1)]) :
     dir \in Sides}
  \cup
  {SignalEvent([timestamp |-> current_time, strategy_id |-> "caller",
                symbol |-> Symbol, direction |-> SELL, order_type |-> STOP_MARKET,
                quantity |-> 1])}

OrdTrades ==
  {MarketData_TradeEvent([timestamp |-> current_time, symbol |-> Symbol,
                          price |-> ExPrice(k), quantity |-> q, side |-> side]) :
     k \in 1..4, q \in {1, 2}, side \in Sides}

InitOrders ==
  /\ InitComponents
  /\ \E b \in OrdBids, a \in OrdAsks : InitOrderBook(b, a)
  /\ ControllerIdle /\ config = DequeConfig
  /\ last_op = [op |-> "init"]

OrdSignal ==
  /\ order_counter < OrdMaxOrders
  /\ event_queue = <<>> /\ pending_limit_orders = <<>>
  /\ \E event \in OrdSignals : Apply(process_signal(S, event))
  /\ last_op' = [op |-> "process_signal"]
  /\ ExecHarness

\* the order at the head of the queue is about to be handed to execute_order
OrderDue ==
  /\ event_queue # <<>>
  /\ Head(event_queue).event_type = ORDER
  /\ Head(event_queue).status = PENDING_SUBMIT

\* the state when the caller has taken the head of the queue
Taken == [S EXCEPT !.event_queue = Tail(@),
                   !.current_time = Max(@, Head(event_queue).timestamp)]

\* the caller takes the oldest queued event; orders go to execute_order
OrdDispatch ==
  /\ event_queue # <<>>
  /\ IF OrderDue
     THEN /\ Apply(execute_order(Taken, Head(event_queue)))
          /\ last_op' = [op |-> "execute_order", order |-> Head(event_queue),
                         walked |-> IF Head(event_queue).direction = BUY
                                    THEN asks ELSE bids]
     ELSE Apply(Taken) /\ last_op' = [op |-> "taken"]
  /\ ExecHarness

OrdTrade ==
  /\ pending_limit_orders # <<>>
  /\ \E trade_event \in OrdTrades :
       LET s1 == check_limit_fills(S, trade_event)
       IN /\ Apply(check_stop_triggers(s1, trade_event))
          /\ last_op' = [op |-> "trade",
                         matched |-> CanFill(pending_limit_orders[1].order, trade_event),
                         ahead |-> pending_limit_orders[1].qty_ahead,
                         fills |-> Len(s1.event_queue) - Len(event_queue)]
  /\ ExecHarness

NextOrders == OrdSignal \/ OrdDispatch \/ OrdTrade

SpecOrders == InitOrders /\ [][NextOrders]_vars

\* the outcome of handing the order at the head of the queue to execute_order,
\* the events that call appends, and the ladder a walk for the order consumes
Executed == execute_order(Taken, Head(event_queue))
Produced == SubSeq(Executed.event_queue, Len(event_queue), Len(Executed.event_queue))
Walked == IF Head(event_queue).direction = BUY THEN asks ELSE bids
FillsProduced == {i \in DOMAIN Produced : Produced[i].event_type = FILL}

\* C13: a MARKET order executed while the ladder it walks is empty is reported
\* REJECTED, no Fill is enqueued for it, and both ladders are unchanged
C13_EmptyLadderRejects ==
  (OrderDue /\ Head(event_queue).order_type = MARKET /\ Walked = <<>>)
    => /\ \E i \in DOMAIN Produced :
            /\ Produced[i].event_type = ORDER /\ Produced[i].status = REJECTED
            /\ Produced[i].order_id = Head(event_queue).order_id
       /\ FillsProduced = {}
       /\ Executed.bids = bids /\ Executed.asks = asks

\* a MARKET order has just been rejected on an empty ladder while the other
\* ladder holds quantity
C13_Witness ==
  /\ last_op.op = "execute_order" /\ last_op.order.order_type = MARKET
  /\ last_op.walked = <<>> /\ (bids # <<>> \/ asks # <<>>)
  /\ \E i \in DOMAIN event_queue :
       /\ event_queue[i].event_type = ORDER /\ event_queue[i].status = REJECTED
       /\ event_queue[i].order_id = last_op.order.order_id

\* the quantity standing on the levels ahead of level i, best first, and the
\* quantity of the whole ladder
RECURSIVE QtyBefore(_, _)
QtyBefore(ladder, i) == IF i <= 1 THEN 0 ELSE QtyBefore(ladder, i - 1) + ladder[i - 1].qty
LadderTotal(ladder) == QtyBefore(ladder, Len(ladder) + 1)

\* what an order of quantity q takes from level i when levels are taken best first
ConsumedAt(ladder, q, i) == Max(0, Min(ladder[i].qty, q - QtyBefore(ladder, i)))

\* the price paid for the quantity taken from the levels 1..i
RECURSIVE ConsumedValue(_, _, _)
ConsumedValue(ladder, q, i) ==
  IF i = 0 THEN Dec(0)
  ELSE RAdd(ConsumedValue(ladder, q, i - 1),
            RMul(Dec(ConsumedAt(ladder, q, i)), ladder[i].price))

\* the quantity-weighted average price of what an order of quantity q takes
WeightedAverage(ladder, q) ==
  RDiv(ConsumedValue(ladder, q, Len(ladder)), Dec(Min(q, LadderTotal(ladder))))

\* C14: a MARKET order of quantity q executed against a non-empty ladder of
\* total quantity T produces exactly one Fill, of quantity min(q, T), at the
\* quantity-weighted average price of the consumed levels, with commission
\* commission_per_contract * quantity_filled; the status reported after it is
\* FILLED when the whole quantity was filled and PARTIALLY_FILLED otherwise
C14_MarketFill ==
  (OrderDue /\ Head(event_queue).order_type = MARKET /\ Walked # <<>>)
    => LET order == Head(event_queue)
           filled == Min(order.quantity, LadderTotal(Walked))
       IN /\ Cardinality(FillsProduced) = 1
          /\ \A i \in FillsProduced :
               /\ Produced[i].order_id = order.order_id
               /\ Produced[i].quantity_filled = filled
               /\ Produced[i].fill_price = WeightedAverage(Walked, order.quantity)
               /\ Produced[i].commission = RMul(commission_per_contract, Dec(filled))
               /\ i < Len(Produced)
               /\ Produced[i + 1].event_type = ORDER
               /\ Produced[i + 1].order_id = order.order_id
               /\ Produced[i + 1].status = IF filled = order.quantity THEN FILLED
                                           ELSE PARTIALLY_FILLED

\* a MARKET order of quantity 2 has just taken the best level and part of the
\* second one
C14_Witness ==
  /\ last_op.op = "execute_order" /\ last_op.order.order_type = MARKET
  /\ last_op.order.quantity = 2 /\ Len(last_op.walked) = 2
  /\ \E i \in DOMAIN event_queue :
       /\ event_queue[i].event_type = FILL /\ event_queue[i].quantity_filled = 2
       /\ event_queue[i].fill_price \notin {last_op.walked[1].price, last_op.walked[2].price}

\* the order at the head of the queue is about to walk a non-empty ladder
WalkDue ==
  /\ OrderDue /\ Walked # <<>>
  /\ \/ Head(event_queue).order_type = MARKET
     \/ Head(event_queue).order_type = LIMIT /\ ImmediateFill(S, Head(event_queue))

\* C15: a walk consumes the opposite ladder strictly best first, reduces the
\* total quantity of that ladder by exactly the filled quantity, deletes every
\* fully consumed level, refreshes best_bid and best_ask, and leaves the other
\* ladder unchanged
C15_WalkFrame ==
  WalkDue
    => LET order == Head(event_queue)
           left == IF order.direction = BUY THEN Executed.asks ELSE Executed.bids
           gone == Len(Walked) - Len(left)
       IN /\ IF order.direction = BUY THEN Executed.bids = bids ELSE Executed.asks = asks
          /\ \A i \in FillsProduced :
               LadderTotal(left) = LadderTotal(Walked) - Produced[i].quantity_filled
          /\ LadderTotal(left) = LadderTotal(Walked)
                                   - Min(order.quantity, LadderTotal(Walked))
          /\ gone >= 0
          /\ \A i \in DOMAIN left :
               /\ left[i].qty > 0
               /\ left[i].price = Walked[i + gone].price
               /\ left[i].qty <= Walked[i + gone].qty
               /\ i > 1 => left[i] = Walked[i + gone]
          /\ Executed.best_bid = FirstKey(Executed.bids)
          /\ Executed.best_ask = FirstKey(Executed.asks)

\* a walk has just deleted the best level and reduced the second one, with
\* quantity standing on the other ladder
C15_Witness ==
  /\ last_op.op = "execute_order" /\ Len(last_op.walked) = 2
  /\ LET left == IF last_op.order.direction = BUY THEN asks ELSE bids
         other == IF last_op.order.direction = BUY THEN bids ELSE asks
     IN /\ Len(left) = 1 /\ left[1].qty < last_op.walked[2].qty
        /\ left[1].price = last_op.walked[2].price
        /\ other # <<>>

\* the limit of the order crosses the best price of the opposite ladder
Crosses(order) ==
  \/ order.direction = BUY /\ asks # <<>> /\ RGe(order.limit_price, asks[1].price)
  \/ order.direction = SELL /\ bids # <<>> /\ RLe(order.limit_price, bids[1].price)

\* C16: a LIMIT order that crosses the BBO when it is placed is not stored in
\* pending_limit_orders; it is executed at once by walking the opposite ladder,
\* and its Fill carries the walked weighted-average price, not the limit price
C16_CrossingLimitWalks ==
  (OrderDue /\ Head(event_queue).order_type = LIMIT /\ Crosses(Head(event_queue)))
    => LET order == Head(event_queue)
       IN /\ ~HasEntry(Executed.pending_limit_orders, order.order_id)
          /\ Cardinality(FillsProduced) = 1
          /\ \A i \in FillsProduced :
               /\ Produced[i].order_id = order.order_id
               /\ Produced[i].quantity_filled = Min(order.quantity, LadderTotal(Walked))
               /\ Produced[i].fill_price = WeightedAverage(Walked, order.quantity)

\* a crossing LIMIT order has just been filled at a price other than its limit
\* and rests nowhere
C16_Witness ==
  /\ last_op.op = "execute_order" /\ last_op.order.order_type = LIMIT
  /\ pending_limit_orders = <<>>
  /\ \E i \in DOMAIN event_queue :
       /\ event_queue[i].event_type = FILL
       /\ event_queue[i].order_id = last_op.order.order_id
       /\ event_queue[i].fill_price # last_op.order.limit_price

\* the trade can reach the resting limit order: the aggressor is on the other
\* side and the trade price is at the limit or through it
Matching(order, trade_event) ==
  /\ order.symbol = trade_event.symbol
  /\ \/ /\ order.direction = BUY /\ trade_event.side = SELL
        /\ RLe(trade_event.price, order.limit_price)
     \/ /\ order.direction = SELL /\ trade_event.side = BUY
        /\ RGe(trade_event.price, order.limit_price)

\* the Fills that check_limit_fills appends for the order on the trade
LimitFills(trade_event, order_id) ==
  LET after == check_limit_fills(S, trade_event).event_queue
  IN {i \in (Len(event_queue) + 1)..Len(after) :
        after[i].event_type = FILL /\ after[i].order_id = order_id}

\* C18: for a resting limit order and a matching trade, trade_consumes is the
\* trade quantity when the trade price equals the limit and unbounded when the
\* trade is through the limit; the fill is
\* max(0, min(trade_consumes - qty_ahead, quantity - qty_filled)), qty_ahead
\* becomes max(0, qty_ahead - trade_consumes), and a trade strictly through the
\* limit fills the whole remaining quantity
C18_LimitFillQuantity ==
  \A trade_event \in OrdTrades : \A k \in DOMAIN pending_limit_orders :
    LET data == pending_limit_orders[k]
        order == data.order
        at_limit == trade_event.price = order.limit_price
        qty_rem == order.quantity - data.qty_filled
        fill == IF at_limit
                THEN Max(0, Min(trade_event.quantity - data.qty_ahead, qty_rem))
                ELSE qty_rem
        ahead == IF at_limit THEN Max(0, data.qty_ahead - trade_event.quantity) ELSE 0
        after == check_limit_fills(S, trade_event)
        fills == LimitFills(trade_event, order.order_id)
    IN Matching(order, trade_event)
         => /\ Cardinality(fills) = IF fill > 0 THEN 1 ELSE 0
            /\ \A i \in fills : after.event_queue[i].quantity_filled = fill
            /\ IF fill = qty_rem
               THEN ~HasEntry(after.pending_limit_orders, order.order_id)
               ELSE /\ HasEntry(after.pending_limit_orders, order.order_id)
                    /\ LET rest == after.pending_limit_orders[
                                     EntryIndex(after.pending_limit_orders, order.order_id)]
                       IN /\ rest.qty_ahead = ahead
                          /\ rest.qty_filled = data.qty_filled + fill

\* a trade at the limit has just cleared a queue of 1 ahead of a resting order
\* and filled part of it
C18_Witness ==
  /\ last_op.op = "trade" /\ last_op.matched /\ last_op.ahead = 1 /\ last_op.fills > 0
  /\ pending_limit_orders # <<>>
  /\ pending_limit_orders[1].qty_filled = 1 /\ pending_limit_orders[1].qty_ahead = 0

\* C19: a resting BUY limit order is filled only by a SELL-aggressor trade at
\* or below its limit, a resting SELL limit order only by a BUY-aggressor trade
\* at or above its limit; a trade that does not match leaves qty_ahead and
\* qty_filled of the order unchanged; every Fill of a resting limit order has
\* fill_price equal to the limit price
C19_LimitFillSafety ==
  \A trade_event \in OrdTrades : \A k \in DOMAIN pending_limit_orders :
    LET data == pending_limit_orders[k]
        order == data.order
        after == check_limit_fills(S, trade_event)
        fills == LimitFills(trade_event, order.order_id)
    IN /\ fills # {} => Matching(order, trade_event)
       /\ \A i \in fills : after.event_queue[i].fill_price = order.limit_price
       /\ ~Matching(order, trade_event)
            => /\ HasEntry(after.pending_limit_orders, order.order_id)
               /\ after.pending_limit_orders[
                    EntryIndex(after.pending_limit_orders, order.order_id)] = data

\* a trade that does not match has just passed a resting limit order that
\* still waits behind a queue
C19_Witness ==
  /\ last_op.op = "trade" /\ ~last_op.matched /\ last_op.fills = 0
  /\ pending_limit_orders # <<>>
  /\ pending_limit_orders[1].qty_ahead = last_op.ahead /\ last_op.ahead > 0

-----------------------------------------------------------------------------
(* The target scenarios of _run_test_scenario with latencies of 100 us and
   500 us *)

TargetScenarioRun ==
  /\ config.test_scenario \in {Some("long_target"), Some("short_target")}
  /\ config.latency_data_signal_ns = 100 * 1000
  /\ config.latency_signal_order_ns = 500 * 1000
  /\ config.max_events = None

\* run has ended: the merged stream is exhausted, or run has raised
RunEnded == pc = "raised" \/ (pc = "done" /\ last_op.stop = "exhausted")

\* the portfolio has processed a Fill of the entry at the synthetic best
\* opposite price at ts = 2 + 600000
EntryFilledAtBest ==
  \E i \in DOMAIN fills_processed :
    /\ fills_processed[i].order_id = OrderId("ENTRY", 1)
    /\ fills_processed[i].timestamp = 2 + 600000
    /\ fills_processed[i].fill_price =
         IF IsShort(config.test_scenario.some) THEN SyntheticBids[1].price
         ELSE SyntheticAsks[1].price

\* a child of the entry of the given type has been registered
ChildCreated(order_type) ==
  \E id \in Keys(submitted_orders) :
    /\ submitted_orders[id].order_type = order_type
    /\ submitted_orders[id].parent_order_id = OrderId("ENTRY", 1)

\* the portfolio has processed a Fill of a target child at the target price,
\* made by the exit trade at ts = 3
TargetFilledAtTarget ==
  \E i \in DOMAIN fills_processed :
    /\ fills_processed[i].order_id.prefix = "TARGET"
    /\ fills_processed[i].timestamp = 3
    /\ fills_processed[i].fill_price =
         IF IsShort(config.test_scenario.some) THEN Rat(5943875, 1000)
         ELSE Rat(5956625, 1000)

\* a CANCELLED status of a stop child has been dispatched
StopCancelled ==
  \E i \in DOMAIN dispatched :
    /\ dispatched[i].event_type = ORDER /\ dispatched[i].status = CANCELLED
    /\ dispatched[i].order_type = STOP_MARKET

\* C20: when a long_target or short_target run with latencies of 100 us and
\* 500 us has ended, the entry MARKET order was filled at the synthetic best
\* opposite price at ts = 2 + 600000, a stop child and a target child were
\* created, the target limit was filled at the target price by the exit trade
\* at ts = 3, the stop was CANCELLED, and realized P&L is greater than 0
C20_TargetScenarioOutcome ==
  (TargetScenarioRun /\ RunEnded)
    => /\ EntryFilledAtBest
       /\ ChildCreated(STOP_MARKET) /\ ChildCreated(LIMIT)
       /\ TargetFilledAtTarget
       /\ StopCancelled
       /\ RGt(realized_pnl, Dec(0))

-----------------------------------------------------------------------------
(* The stop scenarios of _run_test_scenario with latencies of 100 us and
   500 us *)

StopScenarioRun ==
  /\ config.test_scenario \in {Some("long_stop"), Some("short_stop")}
  /\ config.latency_data_signal_ns = 100 * 1000
  /\ config.latency_signal_order_ns = 500 * 1000
  /\ config.max_events = None

\* a TRIGGERED status of a stop child, made by the exit trade at ts = 3, has
\* been dispatched
StopTriggeredByExitTrade ==
  \E i \in DOMAIN dispatched :
    /\ dispatched[i].event_type = ORDER /\ dispatched[i].status = TRIGGERED
    /\ dispatched[i].order_type = STOP_MARKET /\ dispatched[i].timestamp = 3

\* a MARKET order whose parent is a stop, of ts = 3 + 500000 and opposite to
\* the entry, has been dispatched and a Fill of it has reached the portfolio
StopChildWalked ==
  \E i \in DOMAIN dispatched :
    /\ dispatched[i].event_type = ORDER /\ dispatched[i].status = PENDING_SUBMIT
    /\ dispatched[i].order_type = MARKET
    /\ dispatched[i].parent_order_id # None
    /\ dispatched[i].timestamp = 3 + 500000
    /\ dispatched[i].direction = IF IsShort(config.test_scenario.some) THEN BUY ELSE SELL
    /\ \E j \in DOMAIN fills_processed :
         fills_processed[j].order_id = dispatched[i].order_id

\* a CANCELLED status of a target child has been dispatched
TargetCancelled ==
  \E i \in DOMAIN dispatched :
    /\ dispatched[i].event_type = ORDER /\ dispatched[i].status = CANCELLED
    /\ dispatched[i].order_type = LIMIT

\* C21: when a long_stop or short_stop run with latencies of 100 us and 500 us
\* has ended, the stop child was triggered by the exit trade at ts = 3, a child
\* MARKET order was spawned at ts = 3 + 500000 and walked the bid side (the ask
\* side for short), the target was CANCELLED, and realized P&L is less than 0
C21_StopScenarioOutcome ==
  (StopScenarioRun /\ RunEnded)
    => /\ StopTriggeredByExitTrade
       /\ StopChildWalked
       /\ TargetCancelled
       /\ RLt(realized_pnl, Dec(0))

-----------------------------------------------------------------------------
(* A BUY limit order joining a bid level of 500 and the trades that work
   through the queue ahead of it *)

\* bid ladders whose best level, of quantity 500, is the level joined, with or
\* without a level below it; ask ladders that the limit does not cross
QueueBids == {OrdLadder(2, 500, 1, q2) : q2 \in {0, 100, 200}}
QueueAsks == {OrdLadder(3, q1, 4, q2) : q1 \in {0, 100}, q2 \in {0, 100}}

QueueSignals ==
  {SignalEvent([timestamp |-> current_time, strategy_id |-> "caller",
                symbol |-> Symbol, direction |-> BUY, order_type |-> LIMIT,
                quantity |-> q, limit_price |-> ExPrice(2)]) : q \in {100, 150}}

QueueTrade(q, side) ==
  MarketData_TradeEvent([timestamp |-> current_time, symbol |-> Symbol,
                         price |-> ExPrice(2), quantity |-> q, side |-> side])
QueueTrades == {QueueTrade(q, side) : q \in {200, 400}, side \in Sides}

InitQueue ==
  /\ InitComponents
  /\ \E b \in QueueBids, a \in QueueAsks : InitOrderBook(b, a)
  /\ ControllerIdle /\ config = DequeConfig
  /\ last_op = [op |-> "init"]

QueueSignal ==
  /\ order_counter < OrdMaxOrders
  /\ event_queue = <<>> /\ pending_limit_orders = <<>>
  /\ \E event \in QueueSignals : Apply(process_signal(S, event))
  /\ last_op' = [op |-> "process_signal"]
  /\ ExecHarness

QueueDispatch ==
  /\ event_queue # <<>>
  /\ IF OrderDue
     THEN /\ Apply(execute_order(Taken, Head(event_queue)))
          /\ last_op' = [op |-> "execute_order"]
     ELSE Apply(Taken) /\ last_op' = [op |-> "taken"]
  /\ dispatched' = Append(dispatched, Head(event_queue))
  /\ ExecFrame

QueueTradeStep ==
  /\ pending_limit_orders # <<>>
  /\ \E trade_event \in QueueTrades :
       LET s1 == check_limit_fills(S, trade_event)
       IN /\ Apply(check_stop_triggers(s1, trade_event))
          /\ last_op' = [op |-> "trade", trade |-> trade_event,
                         fills |-> Len(s1.event_queue) - Len(event_queue)]
  /\ ExecHarness

NextQueue == QueueSignal \/ QueueDispatch \/ QueueTradeStep

SpecQueue == InitQueue /\ [][NextQueue]_vars

\* the entry of the order in the pending table of state s
Resting(s, order_id) == s.pending_limit_orders[EntryIndex(s.pending_limit_orders, order_id)]

\* the quantity of the Fills of the order among the events i..Len(queue)
RECURSIVE FilledFrom(_, _, _)
FilledFrom(queue, i, order_id) ==
  IF i > Len(queue) THEN 0
  ELSE (IF queue[i].event_type = FILL /\ queue[i].order_id = order_id
        THEN queue[i].quantity_filled ELSE 0) + FilledFrom(queue, i + 1, order_id)

\* a BUY limit order of quantity at least 100 is about to join the best bid
\* level, which holds 500
JoinsBestBid ==
  /\ OrderDue
  /\ Head(event_queue).order_type = LIMIT /\ Head(event_queue).direction = BUY
  /\ Head(event_queue).quantity >= 100
  /\ bids # <<>> /\ bids[1].price = Head(event_queue).limit_price /\ bids[1].qty = 500
  /\ ~Crosses(Head(event_queue))

\* C22: for a BUY limit of quantity at least 100 placed at L when the bid level
\* at L holds 500 and no bid level is priced above L, the initial qty_ahead is
\* 500; a SELL-aggressor trade at L of quantity 200 produces no fill and leaves
\* qty_ahead = 300, and a following SELL-aggressor trade at L of quantity 400
\* fills exactly 100
C22_QueuePosition ==
  JoinsBestBid
    => LET id == Head(event_queue).order_id
           placed == Executed
           first == check_limit_fills(placed, QueueTrade(200, SELL))
           second == check_limit_fills(first, QueueTrade(400, SELL))
       IN /\ HasEntry(placed.pending_limit_orders, id)
          /\ Resting(placed, id).qty_ahead = 500
          /\ FilledFrom(first.event_queue, Len(placed.event_queue) + 1, id) = 0
          /\ HasEntry(first.pending_limit_orders, id)
          /\ Resting(first, id).qty_ahead = 300
          /\ FilledFrom(second.event_queue, Len(first.event_queue) + 1, id) = 100

\* the same statement for books with no bid level below L
C22_QueuePositionNothingBelow == (Len(bids) = 1) => C22_QueuePosition

-----------------------------------------------------------------------------
(* Portfolio.update_fill on a fill that flips the position *)

\* the fill takes a non-zero position to one of the opposite sign
Flips(event) ==
  LET current_pos == HoldingsOf(S, event.symbol)
      new_pos == current_pos + event.quantity_filled
                               * (IF event.direction = BUY THEN 1 ELSE -1)
  IN current_pos # 0 /\ new_pos * current_pos < 0

\* C23: a single fill that flips a position appends exactly one closed-trade
\* record, whose quantity is the absolute value of the old holdings, and leaves
\* an open position whose entry price and average price equal the fill price,
\* whose quantity is the signed overflow new_pos and whose direction is LONG if
\* new_pos > 0 and SHORT otherwise
C23_FlipInOneFill ==
  \A event \in PfFills :
    Flips(event)
      => LET sym == event.symbol
             current_pos == HoldingsOf(S, sym)
             new_pos == current_pos + event.quantity_filled
                                      * (IF event.direction = BUY THEN 1 ELSE -1)
             after == update_fill(S, event)
         IN /\ Len(after.trade_log) = Len(trade_log) + 1
            /\ SubSeq(after.trade_log, 1, Len(trade_log)) = trade_log
            /\ after.trade_log[Len(after.trade_log)].quantity = Abs(current_pos)
            /\ sym \in Keys(after.open_positions)
            /\ after.open_positions[sym].entry_price = event.fill_price
            /\ after.open_positions[sym].quantity = new_pos
            /\ after.open_positions[sym].direction
                 = (IF new_pos > 0 THEN "LONG" ELSE "SHORT")
            /\ sym \in Keys(after.positions_avg_price)
            /\ after.positions_avg_price[sym] = event.fill_price
            /\ HoldingsOf(after, sym) = new_pos

\* a fill has just flipped a long position into a short one
C23_Witness ==
  /\ last_op.op = "update_fill" /\ last_op.branch = "close"
  /\ fills_processed[Len(fills_processed)].symbol = Symbol
  /\ fills_processed[Len(fills_processed)].direction = SELL
  /\ HoldingsOf(S, Symbol) < 0 /\ trade_log # <<>>
  /\ open_positions[Symbol].direction = "SHORT"

-----------------------------------------------------------------------------
(* Rejected orders *)

\* execute_order is about to reject the order at the head of the queue: no
\* liquidity for a MARKET order, a STOP_MARKET order without stop price, or an
\* order type that is none of the three
RejectDue ==
  /\ OrderDue
  /\ LET order == Head(event_queue)
     IN \/ order.order_type = MARKET /\ Walked = <<>>
        \/ order.order_type = STOP_MARKET /\ order.stop_price = None
        \/ order.order_type \notin {MARKET, LIMIT, STOP_MARKET}

\* C24: whenever an order is rejected, a REJECTED status event is enqueued, no
\* Fill is enqueued for it, and afterwards the order id is in none of
\* submitted_orders, pending_limit_orders and pending_stop_orders and is not a
\* key of linked_exit_orders
C24_RejectedLeavesNoTrace ==
  RejectDue
    => LET id == Head(event_queue).order_id
       IN /\ \E i \in DOMAIN Produced :
               /\ Produced[i].event_type = ORDER /\ Produced[i].status = REJECTED
               /\ Produced[i].order_id = id
          /\ FillsProduced = {}
          /\ id \notin Keys(Executed.submitted_orders)
          /\ ~HasEntry(Executed.pending_limit_orders, id)
          /\ ~HasEntry(Executed.pending_stop_orders, id)
          /\ id \notin Keys(Executed.linked_exit_orders)

\* the same statement without the clause on linked_exit_orders
C24_RejectedLeavesTables ==
  RejectDue
    => LET id == Head(event_queue).order_id
       IN /\ \E i \in DOMAIN Produced :
               /\ Produced[i].event_type = ORDER /\ Produced[i].status = REJECTED
               /\ Produced[i].order_id = id
          /\ FillsProduced = {}
          /\ id \notin Keys(Executed.submitted_orders)
          /\ ~HasEntry(Executed.pending_limit_orders, id)
          /\ ~HasEntry(Executed.pending_stop_orders, id)

-----------------------------------------------------------------------------
(* The statuses emitted for one order *)

\* the events emitted so far, in the order of emission: the queue is first in
\* first out, so these are the events handed back followed by those queued
Emitted == dispatched \o event_queue

\* the statuses of the order events of one id among the events, in order
RECURSIVE StatusesOf(_, _)
StatusesOf(events, id) ==
  IF events = <<>> THEN <<>>
  ELSE (IF Head(events).event_type = ORDER /\ Head(events).order_id = id
        THEN <<Head(events).status>> ELSE <<>>) \o StatusesOf(Tail(events), id)

EmittedOrders == {i \in DOMAIN Emitted : Emitted[i].event_type = ORDER}
EmittedIds == {Emitted[i].order_id : i \in EmittedOrders}
TerminalStatuses == {FILLED, REJECTED, CANCELLED}

\* PENDING_SUBMIT, ACCEPTED, PARTIALLY_FILLED*, then FILLED, REJECTED or
\* CANCELLED, or a prefix of that; TRIGGERED right after ACCEPTED for a
\* STOP_MARKET order
StatusPath(seq, order_type) ==
  /\ seq # <<>> => seq[1] = PENDING_SUBMIT
  /\ Len(seq) >= 2 => seq[2] = ACCEPTED
  /\ \A i \in 3..Len(seq) :
       /\ seq[i] \in {PARTIALLY_FILLED, TRIGGERED} \union TerminalStatuses
       /\ seq[i] = PARTIALLY_FILLED => seq[i - 1] \in {ACCEPTED, PARTIALLY_FILLED}
       /\ seq[i] = TRIGGERED => order_type = STOP_MARKET /\ seq[i - 1] = ACCEPTED
       /\ seq[i] \in TerminalStatuses => seq[i - 1] \in {ACCEPTED, PARTIALLY_FILLED}
  /\ \A i \in 1..(Len(seq) - 1) : seq[i] \notin TerminalStatuses

\* C25: for every order id, the statuses emitted for it are a prefix of
\* PENDING_SUBMIT, ACCEPTED, zero or more PARTIALLY_FILLED, then one of FILLED,
\* REJECTED or CANCELLED (TRIGGERED after ACCEPTED for STOP_MARKET orders only);
\* no status is emitted for an id after its terminal status; an order is in
\* submitted_orders exactly from its creation until its terminal status
C25_StatusStateMachine ==
  /\ \A i \in EmittedOrders :
       LET seq == StatusesOf(Emitted, Emitted[i].order_id)
       IN /\ StatusPath(seq, Emitted[i].order_type)
          /\ (Emitted[i].order_id \in Keys(submitted_orders))
               <=> (seq[Len(seq)] \notin TerminalStatuses)
  /\ Keys(submitted_orders) \subseteq EmittedIds

\* a stop has been triggered and its sibling target cancelled, and every event
\* has been handed back
C25_Witness ==
  /\ event_queue = <<>>
  /\ \E i, j \in EmittedOrders :
       /\ StatusesOf(Emitted, Emitted[i].order_id) = <<PENDING_SUBMIT, ACCEPTED, TRIGGERED>>
       /\ StatusesOf(Emitted, Emitted[j].order_id) = <<PENDING_SUBMIT, ACCEPTED, CANCELLED>>

-----------------------------------------------------------------------------
(* The strategy driven by a caller: trades, fills and order statuses *)

StratMaxTrades == 5
StratMaxTime == 4

StratConfigs == {[DequeConfig EXCEPT !.wiring = w] : w \in {"direct", "repaired"}}

\* trades that build a diagonal of bid volume at one price and ask volume one
\* tick above it, and a trade of another symbol
StratTrades(ts) ==
  {MarketData_TradeEvent([timestamp |-> ts, symbol |-> Symbol,
                          price |-> ExPrice(IF side = SELL THEN 4 ELSE 5),
                          quantity |-> q, side |-> side]) :
     side \in Sides, q \in {1, 2}}
  \union
  {MarketData_TradeEvent([timestamp |-> ts, symbol |-> OtherSymbol,
                          price |-> ExPrice(4), quantity |-> 1, side |-> SELL])}

StratFills ==
  {FillEvent([timestamp |-> last_market_ts, order_id |-> OrderId("ENTRY", 1),
              strategy_id |-> id, symbol |-> Symbol, direction |-> dir,
              quantity_filled |-> 1, fill_price |-> ExPrice(4),
              commission |-> commission_per_contract]) :
     id \in {strategy_id, "caller"}, dir \in Sides}

StratStatuses ==
  {OrderEvent([timestamp |-> last_market_ts, order_id |-> OrderId("ENTRY", 1),
               strategy_id |-> id, symbol |-> Symbol, quantity |-> 1,
               order_type |-> MARKET, direction |-> BUY, status |-> status,
               parent_order_id |-> parent]) :
     id \in {strategy_id, "caller"},
     status \in {ACCEPTED, PARTIALLY_FILLED, FILLED, REJECTED, CANCELLED, TRIGGERED},
     parent \in {None, OrderId("ENTRY", 2)}}

\* the call reaches the SignalEvent constructor of _generate_signal, where
\* EventType is not defined unless the module imports it
RaisesNameError(s, event) ==
  /\ config.wiring # "repaired"
  /\ Len(on_market_data(s, event).event_queue) > Len(s.event_queue)

\* what a call of on_market_data leaves: nothing is changed before the raise
OnMarketData(s, event) == IF RaisesNameError(s, event) THEN s ELSE on_market_data(s, event)

InitStrategy ==
  /\ config \in StratConfigs
  /\ InitObjects
  /\ pc = "harness" /\ list_iter = 0 /\ last_market_ts = 0
  /\ market_left = StratMaxTrades
  /\ last_op = [op |-> "init"]

StratFrame == UNCHANGED <<config, list_iter, dispatched>>

StratTrade ==
  /\ pc = "harness" /\ market_left > 0
  /\ \E ts \in last_market_ts..StratMaxTime :
       /\ \E event \in StratTrades(ts) :
            /\ Apply(OnMarketData(S, event))
            /\ pc' = IF RaisesNameError(S, event) THEN "raised" ELSE pc
            /\ last_op' = [op |-> "on_market_data",
                           emitted |-> Len(OnMarketData(S, event).event_queue)
                                         - Len(event_queue)]
       /\ last_market_ts' = ts
  /\ market_left' = market_left - 1
  /\ StratFrame

StratFill ==
  /\ pc = "harness"
  /\ \E event \in StratFills :
       /\ on_fill(S, event).current_position \in -1..1
       /\ Apply(on_fill(S, event))
       /\ last_op' = [op |-> "on_fill",
                      cleared |-> active_order_id # None
                                    /\ on_fill(S, event).active_order_id = None]
  /\ UNCHANGED <<pc, market_left, last_market_ts>>
  /\ StratFrame

StratStatus ==
  /\ pc = "harness"
  /\ \E event \in StratStatuses :
       /\ Apply(on_order_status(S, event))
       /\ last_op' = [op |-> "on_order_status",
                      cleared |-> active_order_id # None
                                    /\ on_order_status(S, event).active_order_id = None]
  /\ UNCHANGED <<pc, market_left, last_market_ts>>
  /\ StratFrame

NextStrategy == StratTrade \/ StratFill \/ StratStatus

SpecStrategy == InitStrategy /\ [][NextStrategy]_vars

ProfileOf(event) ==
  AddVolume([S EXCEPT !.volume_profile = EmptyDict], event.price,
            IF event.side = SELL THEN "bid_vol" ELSE "ask_vol",
            event.quantity).volume_profile

\* C27: a trade whose timestamp is at or after bar_start + bar_interval causes
\* the bar to be finalized (the ratio scan runs over the profile accumulated so
\* far, without this trade) and the profile to be reset before the trade's
\* quantity is added, so that its volume is counted only in the new bar; a
\* trade before bar_start + bar_interval never triggers finalization
C27_BarBoundary ==
  \A ts \in last_market_ts..StratMaxTime : \A event \in StratTrades(ts) :
    (event.symbol = Symbol /\ current_bar_start_time # None)
      => LET bar_end == current_bar_start_time.some + bar_interval_ns
             after == OnMarketData(S, event)
         IN IF ts >= bar_end
            THEN /\ after.event_queue = _calculate_and_signal(S, bar_end - 1).event_queue
                 /\ after.volume_profile = ProfileOf(event)
                 /\ after.current_bar_start_time # current_bar_start_time
                 /\ after.current_bar_start_time.some <= ts
                 /\ ts < after.current_bar_start_time.some + bar_interval_ns
            ELSE /\ after.event_queue = event_queue
                 /\ after.current_bar_start_time = current_bar_start_time
                 /\ after.volume_profile
                      = AddVolume(S, event.price,
                                  IF event.side = SELL THEN "bid_vol" ELSE "ask_vol",
                                  event.quantity).volume_profile

\* the same statement for the strategy with EventType imported
C27_BarBoundaryImported == (config.wiring = "repaired") => C27_BarBoundary

\* a trade exactly at the end of the bar has just finalized it with a signal
\* and is the only volume of the new bar
C27_BoundaryReached ==
  /\ last_op.op = "on_market_data" /\ last_op.emitted = 1
  /\ current_bar_start_time = Some(last_market_ts)
  /\ Cardinality(Keys(volume_profile)) = 1

-----------------------------------------------------------------------------
(* Stop orders and the trades that trigger them *)

\* trades of either aggressor side and of two quantities at prices below, at
\* and above the stop prices
StopTrades ==
  {MarketData_TradeEvent([timestamp |-> current_time, symbol |-> Symbol,
                          price |-> ExPrice(k), quantity |-> q, side |-> side]) :
     k \in 2..8, q \in {1, 3}, side \in Sides}

\* the events a call appends to the queue
NewEvents(s0, s1) == SubSeq(s1.event_queue, Len(s0.event_queue) + 1, Len(s1.event_queue))

\* the condition of the stop is met by the price of the trade
StopConditionMet(order, trade_event) ==
  IF order.direction = SELL THEN RLe(trade_event.price, order.stop_price)
  ELSE RGe(trade_event.price, order.stop_price)

\* C28: a pending SELL stop is triggered by a trade if and only if
\* trade.price <= stop_price and a pending BUY stop if and only if
\* trade.price >= stop_price, whatever the aggressor side and the quantity of
\* the trade; a stop whose condition is not met stays in pending_stop_orders
\* unchanged and no event is emitted for it
C28_StopTriggerCondition ==
  \A trade_event \in StopTrades : \A k \in DOMAIN pending_stop_orders :
    LET order == pending_stop_orders[k].order
        id == pending_stop_orders[k].order_id
        after == check_stop_triggers(S, trade_event)
        new == NewEvents(S, after)
        met == StopConditionMet(order, trade_event)
    IN /\ met <=> (\E i \in DOMAIN new : /\ new[i].event_type = ORDER
                                         /\ new[i].status = TRIGGERED
                                         /\ new[i].order_id = id)
       /\ met <=> ~HasEntry(after.pending_stop_orders, id)
       /\ ~met => /\ after.pending_stop_orders[EntryIndex(after.pending_stop_orders, id)]
                       = pending_stop_orders[k]
                  /\ \A i \in DOMAIN new :
                       /\ new[i].order_id # id
                       /\ new[i].event_type = ORDER => new[i].parent_order_id # id

\* a trade has just triggered a BUY stop
C28_Witness ==
  /\ last_op.op = "trade" /\ last_op.triggered # {}
  /\ \E i \in DOMAIN event_queue :
       /\ event_queue[i].event_type = ORDER /\ event_queue[i].status = TRIGGERED
       /\ event_queue[i].order_id \in last_op.triggered
       /\ event_queue[i].direction = BUY


\* the orders a call appends to the queue as the child of a parent order
FollowUps(new, parent_id) ==
  {i \in DOMAIN new : /\ new[i].event_type = ORDER
                      /\ new[i].parent_order_id = parent_id
                      /\ new[i].status = PENDING_SUBMIT}

\* C29: in the dispatch of a trade that triggers a stop, the stop leaves
\* pending_stop_orders, a TRIGGERED status is enqueued for it, and exactly one
\* follow-up MARKET order is enqueued in the direction of the stop, in status
\* PENDING_SUBMIT, with parent_order_id the id of the stop, timestamp
\* trade.timestamp + latency_signal_order and quantity order.quantity -
\* order.filled_quantity (none when that quantity is 0); the follow-up is
\* only enqueued by that dispatch: it is registered and waits in the queue,
\* the book is untouched, and no status or fill of it is emitted
C29_StopTriggerFollowUp ==
  \A trade_event \in StopTrades :
    LET s1 == check_limit_fills(S, trade_event)
        after == check_stop_triggers(s1, trade_event)
        new == NewEvents(s1, after)
    IN \A k \in DOMAIN s1.pending_stop_orders :
         LET order == s1.pending_stop_orders[k].order
             id == s1.pending_stop_orders[k].order_id
             remaining == order.quantity - order.filled_quantity
             follow == FollowUps(new, id)
         IN StopConditionMet(order, trade_event) =>
              /\ ~HasEntry(after.pending_stop_orders, id)
              /\ \E i \in DOMAIN new : /\ new[i].event_type = ORDER
                                       /\ new[i].status = TRIGGERED
                                       /\ new[i].order_id = id
              /\ IF remaining = 0 THEN follow = {}
                 ELSE /\ Cardinality(follow) = 1
                      /\ \A i \in follow :
                           /\ new[i].order_type = MARKET
                           /\ new[i].direction = order.direction
                           /\ new[i].timestamp
                                = trade_event.timestamp + latency_signal_order_ns
                           /\ new[i].quantity = remaining
                           /\ new[i].filled_quantity = 0
                           /\ after.submitted_orders[new[i].order_id] = new[i]
                           /\ \A j \in DOMAIN new :
                                j # i => new[j].order_id # new[i].order_id
              /\ after.bids = s1.bids /\ after.asks = s1.asks

\* the follow-up order of a triggered stop has been taken from the queue and
\* executed against the book in a later dispatch
C29_Witness ==
  /\ last_op.op = "execute_order"
  /\ \E i \in DOMAIN dispatched :
       /\ dispatched[i].event_type = ORDER
       /\ dispatched[i].status = PENDING_SUBMIT
       /\ dispatched[i].order_id.suffix = "_MKT"
       /\ i = Len(dispatched)
       /\ \E j \in 1..(i - 1) : /\ dispatched[j].event_type = ORDER
                                /\ dispatched[j].status = TRIGGERED
                                /\ dispatched[j].order_id = dispatched[i].parent_order_id

-----------------------------------------------------------------------------
(* Signals *)

\* the linked price a signal carries: none, or one a few ticks from the book
LinkedPrices == {None, ExPrice(4)}

\* signals of either direction and any order type, with and without each of
\* the linked prices
LinkedSignals ==
  {SignalEvent([timestamp |-> current_time, strategy_id |-> "caller",
                symbol |-> Symbol, direction |-> dir, order_type |-> ty,
                quantity |-> q, signal_stop_price |-> sp,
                signal_target_price |-> tp]) :
     dir \in Sides, ty \in {MARKET, LIMIT, STOP_MARKET}, q \in {2},
     sp \in LinkedPrices, tp \in LinkedPrices}

\* C30: process_signal creates exactly one entry order, in status
\* PENDING_SUBMIT, with timestamp signal.timestamp + latency_data_signal +
\* latency_signal_order, the direction, type and quantity of the signal and
\* its linked stop and target prices, records it in submitted_orders and
\* enqueues it; it adds a record with empty stop_id and target_id to
\* linked_exit_orders if and only if the signal carries a linked stop price
\* or a linked target price
C30_ProcessSignal ==
  \A event \in LinkedSignals :
    LET after == process_signal(S, event)
        new == NewEvents(S, after)
        created == Keys(after.submitted_orders) \ Keys(submitted_orders)
        linked == Keys(after.linked_exit_orders) \ Keys(linked_exit_orders)
        carries == event.signal_stop_price # None \/ event.signal_target_price # None
    IN /\ Len(new) = 1 /\ Cardinality(created) = 1
       /\ \A id \in created :
            /\ new[1] = after.submitted_orders[id]
            /\ new[1].order_id = id
            /\ new[1].event_type = ORDER
            /\ new[1].status = PENDING_SUBMIT
            /\ new[1].timestamp = event.timestamp + config.latency_data_signal_ns
                                    + config.latency_signal_order_ns
            /\ new[1].direction = event.direction
            /\ new[1].order_type = event.order_type
            /\ new[1].quantity = event.quantity
            /\ new[1].linked_stop_price = event.signal_stop_price
            /\ new[1].linked_target_price = event.signal_target_price
            /\ linked = IF carries THEN {id} ELSE {}
            /\ carries =>
                 after.linked_exit_orders[id] = [stop_id |-> None, target_id |-> None]
       /\ \A id \in Keys(submitted_orders) :
            after.submitted_orders[id] = submitted_orders[id]
       /\ \A id \in Keys(linked_exit_orders) :
            after.linked_exit_orders[id] = linked_exit_orders[id]

\* a signal with linked prices has just been turned into an entry order that
\* waits in the queue, with its empty record in linked_exit_orders
C30_Witness ==
  /\ last_op.op = "process_signal" /\ event_queue # <<>>
  /\ LET order == event_queue[Len(event_queue)]
     IN /\ order.order_id \in Keys(submitted_orders)
        /\ order.linked_stop_price # None
        /\ order.order_id \in Keys(linked_exit_orders)
        /\ linked_exit_orders[order.order_id] = [stop_id |-> None, target_id |-> None]

-----------------------------------------------------------------------------
(* One depth event on the ladders *)

\* book_side.get(price): the level a ladder holds at a price, None without one
LevelAt(ladder, price) ==
  IF LadderHas(ladder, price)
  THEN [qty |-> ladder[LadderIndex(ladder, price)].qty,
        num_orders |-> ladder[LadderIndex(ladder, price)].num_orders]
  ELSE None

\* the prices of the levels of a ladder
LadderPrices(ladder) == {ladder[i].price : i \in DOMAIN ladder}

\* the top of the bids is the highest bid price, None on an empty ladder
TopBid(ladder) ==
  IF ladder = <<>> THEN None
  ELSE CHOOSE p \in LadderPrices(ladder) : \A r \in LadderPrices(ladder) : RGe(p, r)

\* the top of the asks is the lowest ask price, None on an empty ladder
TopAsk(ladder) ==
  IF ladder = <<>> THEN None
  ELSE CHOOSE p \in LadderPrices(ladder) : \A r \in LadderPrices(ladder) : RLe(p, r)

\* C31: an accepted depth event (not stale, of the book's symbol) changes at
\* most the level at the event's price on the ladder its side selects (SELL
\* the bids, BUY the asks): DELETE, or UPDATE with qty <= 0, removes that
\* level if present; INSERT or UPDATE with qty > 0 sets it to
\* {qty, num_orders}; every other level of that ladder and the whole opposite
\* ladder are unchanged, and best_bid and best_ask are the tops of the
\* ladders afterwards
C31_DepthEventOneLevel ==
  \A event \in BookDepthEvents :
    (~StaleOrForeign(S, event) /\ event.command \in {INSERT, UPDATE, DELETE}) =>
      LET after == process_depth_event(S, event)
          on_bids == event.side = SELL
          before_side == IF on_bids THEN bids ELSE asks
          after_side == IF on_bids THEN after.bids ELSE after.asks
      IN /\ (event.command = DELETE \/ (event.command = UPDATE /\ event.quantity <= 0))
              => LevelAt(after_side, event.price) = None
         /\ (event.command \in {INSERT, UPDATE} /\ event.quantity > 0)
              => LevelAt(after_side, event.price)
                   = [qty |-> event.quantity, num_orders |-> event.num_orders]
         /\ LadderPrices(after_side) \ {event.price}
              = LadderPrices(before_side) \ {event.price}
         /\ \A p \in LadderPrices(before_side) \ {event.price} :
              LevelAt(after_side, p) = LevelAt(before_side, p)
         /\ Len(after_side) = Cardinality(LadderPrices(after_side))
         /\ IF on_bids THEN after.asks = asks ELSE after.bids = bids
         /\ after.best_bid = TopBid(after.bids)
         /\ after.best_ask = TopAsk(after.asks)

\* an accepted DELETE has just been applied and levels remain on both ladders
C31_Witness ==
  /\ last_op.op = "process_depth_event" /\ ~last_op.ignored
  /\ last_op.command = DELETE
  /\ Len(bids) = 1 /\ best_bid = bids[1].price /\ asks # <<>>

-----------------------------------------------------------------------------
(* The diagonal scan at bar finalization *)

\* ask_vol one tick above a price in a profile, 0 without an entry
AskVolDiag(vp, p) ==
  IF RAdd(p, TickSize) \in Keys(vp) THEN vp[RAdd(p, TickSize)].ask_vol ELSE 0

\* a >= b and 100*a >= threshold*b at a price of the profile, both non-zero
QualifiesBuy(vp, p) ==
  LET b == vp[p].bid_vol
      a == AskVolDiag(vp, p)
  IN /\ b > 0 /\ a > 0 /\ a >= b
     /\ RGe(Dec(100 * a), RMul(percentage_threshold, Dec(b)))

\* b > a and 100*b >= threshold*a at a price of the profile, both non-zero
QualifiesSell(vp, p) ==
  LET b == vp[p].bid_vol
      a == AskVolDiag(vp, p)
  IN /\ b > 0 /\ a > 0 /\ b > a
     /\ RGe(Dec(100 * b), RMul(percentage_threshold, Dec(a)))

Qualifying(vp) == {p \in Keys(vp) : QualifiesBuy(vp, p) \/ QualifiesSell(vp, p)}

\* the events the scan of a profile is expected to emit
ExpectedSignals(vp, new) ==
  IF Qualifying(vp) = {} THEN new = <<>>
  ELSE LET p == CHOOSE x \in Qualifying(vp) : \A y \in Qualifying(vp) : RLe(x, y)
       IN /\ Len(new) = 1
          /\ new[1].event_type = SIGNAL /\ new[1].order_type = MARKET
          /\ new[1].direction = IF QualifiesBuy(vp, p) THEN BUY ELSE SELL
          /\ new[1].signal_trigger_price
               = IF QualifiesBuy(vp, p) THEN RAdd(p, TickSize) ELSE p

\* C32: on bar finalization with the strategy flat and unlocked, the prices p
\* with bid_vol(p) > 0 are scanned in ascending order with b = bid_vol(p) and
\* a = ask_vol(p + tick_size), both non-zero: a BUY signal with trigger
\* p + tick_size is emitted when a >= b and 100*a >= threshold*b, a SELL
\* signal with trigger p when b > a and 100*b >= threshold*a; the first price
\* that qualifies produces the only signal of the bar, and a price with a = 0
\* never produces one
C32_DiagonalScan ==
  \A ts \in last_market_ts..StratMaxTime : \A event \in StratTrades(ts) :
    ( /\ event.symbol = Symbol /\ current_bar_start_time # None
      /\ ts >= current_bar_start_time.some + bar_interval_ns
      /\ current_position = 0 /\ active_order_id = None )
      => ExpectedSignals(volume_profile, NewEvents(S, OnMarketData(S, event)))

\* the same statement for the strategy with EventType imported
C32_DiagonalScanImported == (config.wiring = "repaired") => C32_DiagonalScan

\* a bar has just been finalized with a SELL signal
C32_SellSignalled ==
  /\ last_op.op = "on_market_data" /\ last_op.emitted = 1
  /\ event_queue[Len(event_queue)].direction = SELL

-----------------------------------------------------------------------------
(* The end of the loop of run *)

\* one step of a run: the handlers of at most max_events events have run; the
\* loop is left once, by a step that runs no handler and performs the equity
\* update of the finally block with the timestamp last assigned to
\* current_time
BoundedLoopStep ==
  /\ pc # "done"
  /\ config.max_events # None => Len(dispatched') <= config.max_events.some
  /\ pc' = "done" =>
       /\ pc = "loop" /\ dispatched' = dispatched
       /\ equity_curve'
            = _update_equity([S EXCEPT !.current_time = current_time'],
                             current_time').equity_curve
       /\ equity_curve' # <<>>
       /\ equity_curve'[Len(equity_curve')][1] >= current_time'
       /\ cash' = cash /\ holdings' = holdings /\ realized_pnl' = realized_pnl
       /\ last_op'.stop \in {"exhausted", "max_events", "interrupt"}

\* C33: when max_events = N > 0 is configured, the handlers of at most N
\* events are run; on every exit path of the loop (stream exhausted,
\* max_events reached, user interrupt) exactly one final equity update is
\* performed, with the last seen timestamp
C33_BoundedLoopFinalEquity == [][BoundedLoopStep]_vars

\* the loop has been left at the event after the max_events-th, whose
\* timestamp the final equity update carries
C33_Witness ==
  /\ pc = "done" /\ last_op.op = "finish" /\ last_op.stop = "max_events"
  /\ Len(dispatched) = config.max_events.some
  /\ equity_curve[Len(equity_curve)][1] = current_time

-----------------------------------------------------------------------------
(* The history of a resting limit order *)

\* the Fill events emitted so far
FillsEmitted == {i \in DOMAIN Emitted : Emitted[i].event_type = FILL}

\* the LIMIT orders that have been placed so far
LimitOrdersPlaced ==
  {i \in DOMAIN dispatched : /\ dispatched[i].event_type = ORDER
                             /\ dispatched[i].status = PENDING_SUBMIT
                             /\ dispatched[i].order_type = LIMIT}

\* C34: for every resting limit order, after any sequence of trades, the
\* cumulative qty_filled never exceeds the order quantity, every Fill emitted
\* for it has quantity_filled > 0, the sum of its Fill quantities equals
\* qty_filled, and qty_ahead is never negative and never increases
C34_RestingOrderAccounting ==
  /\ \A i \in FillsEmitted : Emitted[i].quantity_filled > 0
  /\ \A i \in LimitOrdersPlaced :
       FilledFrom(Emitted, 1, dispatched[i].order_id) <= dispatched[i].quantity
  /\ \A k \in DOMAIN pending_limit_orders :
       LET data == pending_limit_orders[k]
       IN /\ data.qty_filled <= data.order.quantity
          /\ FilledFrom(Emitted, 1, data.order_id) = data.qty_filled
          /\ data.qty_ahead >= 0
          /\ \A trade_event \in QueueTrades :
               LET after == check_limit_fills(S, trade_event)
               IN HasEntry(after.pending_limit_orders, data.order_id)
                    => /\ Resting(after, data.order_id).qty_ahead <= data.qty_ahead
                       /\ Resting(after, data.order_id).qty_filled >= data.qty_filled

\* a resting order has been partially filled once the queue ahead of it was
\* consumed by earlier trades
C34_Witness ==
  /\ last_op.op = "trade" /\ last_op.fills > 0
  /\ pending_limit_orders # <<>>
  /\ pending_limit_orders[1].qty_filled > 0
  /\ pending_limit_orders[1].qty_filled < pending_limit_orders[1].order.quantity
  /\ pending_limit_orders[1].qty_ahead = 0

-----------------------------------------------------------------------------
(* Every submitted order comes to an end *)

\* the ids of the first entry order, of its exit orders and of the follow-up
\* of its stop
ExOrderIds ==
  {OrderId("ENTRY", 1), OrderId("STOP", 2), OrderId("TARGET", 3),
   [OrderId("STOP", 2) EXCEPT !.suffix = "_MKT"]}

\* every enqueued event has been dispatched and the market has traded through
\* the price of every order that rested
Quiescent ==
  event_queue = <<>> /\ pending_limit_orders = <<>> /\ pending_stop_orders = <<>>

\* C35: every order recorded in submitted_orders eventually reaches a terminal
\* status (FILLED, REJECTED or CANCELLED) and is removed from submitted_orders,
\* when all enqueued events are dispatched and the market eventually trades
\* through the price of every resting order; so once nothing is queued and
\* nothing rests, no order is recorded any more: a STOP_MARKET order that has
\* triggered and a MARKET order that was only partially filled do not stay
\* in submitted_orders
C35_EveryOrderTerminates == Quiescent => submitted_orders = EmptyDict

\* the order is recorded, is not queued for execution and rests nowhere
Unattended(s, id) ==
  /\ id \in Keys(s.submitted_orders)
  /\ ~HasEntry(s.pending_limit_orders, id) /\ ~HasEntry(s.pending_stop_orders, id)
  /\ \A i \in DOMAIN s.event_queue :
       ~(s.event_queue[i].event_type = ORDER /\ s.event_queue[i].order_id = id
           /\ s.event_queue[i].status = PENDING_SUBMIT)

\* an unattended order stays recorded, whatever signal, dispatch or trade
\* comes next
C35_UnattendedStays ==
  \A id \in ExOrderIds :
    Unattended(S, id) =>
      /\ \A event \in ExSignals : Unattended(process_signal(S, event), id)
      /\ \A trade_event \in ExTrades :
           Unattended(check_stop_triggers(check_limit_fills(S, trade_event),
                                          trade_event), id)
      /\ event_queue # <<>> =>
           LET event == Head(event_queue)
               s0 == [S EXCEPT !.event_queue = Tail(@)]
           IN Unattended(IF event.event_type = ORDER /\ event.status = PENDING_SUBMIT
                         THEN execute_order(s0, event)
                         ELSE IF event.event_type = FILL
                         THEN _activate_linked_exits(s0, event.order_id, event)
                         ELSE s0, id)

-----------------------------------------------------------------------------
(* Fills against the position *)

\* the fill is in the direction opposite to the position held in its symbol
Opposes(event) ==
  \/ HoldingsOf(S, event.symbol) > 0 /\ event.direction = SELL
  \/ HoldingsOf(S, event.symbol) < 0 /\ event.direction = BUY

\* C36: every fill whose direction opposes the current position, including
\* one that only reduces the position without reaching zero, adds the P&L of
\* the closed quantity to realized_pnl, appends a closed-trade record for that
\* quantity, and leaves positions_avg_price of the remaining position
\* unchanged
C36_OpposingFillRealizes ==
  \A event \in PfFills :
    (Opposes(event) /\ event.symbol \in Keys(open_positions))
      => LET sym == event.symbol
             current_pos == HoldingsOf(S, sym)
             new_pos == current_pos + event.quantity_filled
                                      * (IF event.direction = BUY THEN 1 ELSE -1)
             qty_closed == Min(Abs(current_pos), event.quantity_filled)
             pnl_dir == IF current_pos > 0 THEN 1 ELSE -1
             pnl == RMul(RDiv(RMul(RSub(event.fill_price, open_positions[sym].entry_price),
                                   Dec(pnl_dir * qty_closed)), TickSize), tick_value)
             after == update_fill(S, event)
         IN /\ after.realized_pnl = RAdd(realized_pnl, pnl)
            /\ Len(after.trade_log) = Len(trade_log) + 1
            /\ after.trade_log[Len(after.trade_log)].quantity = qty_closed
            /\ new_pos * current_pos > 0
                 => after.positions_avg_price[sym] = positions_avg_price[sym]

\* the same statement for the fills that bring the position to zero or flip it
C36_ClosingFillRealizes ==
  \A event \in PfFills :
    LET current_pos == HoldingsOf(S, event.symbol)
        new_pos == current_pos + event.quantity_filled
                                 * (IF event.direction = BUY THEN 1 ELSE -1)
    IN (Opposes(event) /\ event.symbol \in Keys(open_positions)
          /\ new_pos * current_pos <= 0)
         => LET pnl == RMul(RDiv(RMul(RSub(event.fill_price,
                                           open_positions[event.symbol].entry_price),
                                      Dec((IF current_pos > 0 THEN 1 ELSE -1)
                                            * Min(Abs(current_pos), event.quantity_filled))),
                                 TickSize), tick_value)
                after == update_fill(S, event)
            IN /\ after.realized_pnl = RAdd(realized_pnl, pnl)
               /\ Len(after.trade_log) = Len(trade_log) + 1
               /\ after.trade_log[Len(after.trade_log)].quantity
                    = Min(Abs(current_pos), event.quantity_filled)

-----------------------------------------------------------------------------
(* Prices and the tick grid *)

\* the price is absent or an integer multiple of the tick size
OnTickGrid(price) ==
  price = None \/ (price.n * TickSize.d) % (price.d * TickSize.n) = 0

\* the signals and orders created so far: dispatched, queued or recorded
SignalsAndOrders ==
  {Emitted[i] : i \in {j \in DOMAIN Emitted : Emitted[j].event_type \in {SIGNAL, ORDER}}}
    \union {submitted_orders[id] : id \in Keys(submitted_orders)}

C37_StopPricesOnTickGrid ==
  \A event \in SignalsAndOrders :
    /\ OnTickGrid(event.stop_price)
    /\ event.event_type = SIGNAL => OnTickGrid(event.signal_stop_price)
    /\ event.event_type = ORDER => OnTickGrid(event.linked_stop_price)

-----------------------------------------------------------------------------
(* The prices a limit order pays *)

\* the quantity a ladder holds at a price, 0 without a level
QtyAt(ladder, price) ==
  IF LadderHas(ladder, price) THEN ladder[LadderIndex(ladder, price)].qty ELSE 0

\* the price is no worse than the limit of the order
WithinLimit(order, price) ==
  IF order.direction = BUY THEN RLe(price, order.limit_price)
  ELSE RGe(price, order.limit_price)

\* C38: no Fill produced for a LIMIT order consumes liquidity at a price worse
\* than its limit: for a BUY limit every consumed ask level has price <= limit
\* and for a SELL limit every consumed bid level has price >= limit, on the
\* crossing-at-placement path and on the resting path alike
C38_LimitPriceRespected ==
  /\ (OrderDue /\ Head(event_queue).order_type = LIMIT)
       => LET order == Head(event_queue)
              left == IF order.direction = BUY THEN Executed.asks ELSE Executed.bids
          IN /\ \A i \in DOMAIN Walked :
                  QtyAt(left, Walked[i].price) < Walked[i].qty
                    => WithinLimit(order, Walked[i].price)
             /\ \A i \in FillsProduced : WithinLimit(order, Produced[i].fill_price)
  /\ \A trade_event \in OrdTrades : \A k \in DOMAIN pending_limit_orders :
       LET order == pending_limit_orders[k].order
           after == check_limit_fills(S, trade_event)
       IN /\ after.bids = bids /\ after.asks = asks
          /\ \A i \in LimitFills(trade_event, order.order_id) :
               WithinLimit(order, after.event_queue[i].fill_price)

\* the same statement for the orders that rest
C38_RestingLimitPriceRespected ==
  (OrderDue /\ Head(event_queue).order_type = LIMIT /\ Crosses(Head(event_queue)))
    \/ C38_LimitPriceRespected

-----------------------------------------------------------------------------
(* The strategy's position and the portfolio's holdings *)

\* the last event the loop dispatched is a Fill
FillJustDispatched ==
  /\ last_op.op = "dispatch" /\ dispatched # <<>>
  /\ dispatched[Len(dispatched)].event_type = FILL

\* the entry quantities of the signals dispatched so far
EntryQuantities ==
  {dispatched[i].quantity : i \in {j \in DOMAIN dispatched : dispatched[j].event_type = SIGNAL}}

-----------------------------------------------------------------------------
(* The cause of the strategy's lock *)

\* the events of the queue the loop has not taken yet
InFlight == {event_queue[i] : i \in (list_iter + 1)..Len(event_queue)}

\* a signal of the strategy, or an entry order of the strategy that has not
\* reached a terminal status, is queued or recorded in submitted_orders
EntryInFlight ==
  \/ \E event \in InFlight :
       /\ event.strategy_id = strategy_id
       /\ \/ event.event_type = SIGNAL
          \/ /\ event.event_type = ORDER /\ event.parent_order_id = None
             /\ ~IsTerminal(event.status)
  \/ \E id \in Keys(submitted_orders) :
       /\ submitted_orders[id].strategy_id = strategy_id
       /\ submitted_orders[id].parent_order_id = None

====
